---------------------------- MODULE Spec2Model ----------------------------
(***************************************************************************)
(* State-machine model of the resource reconcilers of                      *)
(* terraform-provider-headscale (User, PreAuthKey, ApiKey, NodeTags,       *)
(* NodeRoutes).                                                            *)
(*                                                                         *)
(* A behaviour follows ONE resource instance of one kind (variable kind,   *)
(* chosen by Init): the handlers of different kinds share no state and     *)
(* touch different tables of the remote service.  The variables are        *)
(*   remote : the tables of the remote headscale service,                  *)
(*   state  : the stored record of the instance (resp.State as the         *)
(*            handler leaves it; present = FALSE when there is none),      *)
(*   now    : the provider host's clock, in ticks (TicksPerSecond a second)*)
(*   hist   : the outcomes of the latest two steps, newest first.          *)
(* One action per handler; an action is the whole handler, its RPCs and    *)
(* its final State.Set / RemoveResource included.  An RPC is atomic: it    *)
(* either fails and changes nothing remotely, or succeeds.                 *)
(***************************************************************************)
EXTENDS Integers, Sequences, FiniteSets, TLC

VARIABLES kind, remote, state, now, hist

vars == <<kind, remote, state, now, hist>>

----------------------------------------------------------------------------
(* Bounds of the model *)

\* the clock stops advancing here
MaxNow == 2
\* ids the remote service hands out to created users / keys
MaxId == 2
\* the nodes the remote service knows are 1..MaxNode
MaxNode == 2

----------------------------------------------------------------------------
(* Framework values: types.Int64 / types.String / types.Set / types.Bool.  *)
(* A null attribute is a sentinel of the attribute's own representation;   *)
(* ValueInt64 / ValueString / ValueBool give Go's zero value for null.     *)

NullInt == 0 - 1
NullStr == "<null>"
NullSet == {"<null>"}
NullBool == "<null>"

ValueInt64(x) == IF x = NullInt THEN 0 ELSE x
ValueString(s) == IF s = NullStr THEN "" ELSE s
BoolValue(b) == IF b THEN "true" ELSE "false"
ValueBool(b) == b = "true"

\* a Go slice of strings that is nil (what an empty repeated field decodes to)
NilStrings == {"<nil>"}

\* types.SetValueFrom(ctx, types.StringType, slice): a nil slice gives a null Set
SetValueFrom(slice) == IF slice = NilStrings THEN NullSet ELSE slice

\* an element of a set that is null (a configuration may write one)
NullElement == "<null element>"

\* Plan.GetAttribute(ctx, path, &target) with a []string target: a null
\* element cannot be held by a Go string, the call returns an error and the
\* target stays as it was, the empty slice
PlanGetAttribute(set) ==
    IF NullElement \in set THEN [err |-> TRUE, v |-> {}]
    ELSE [err |-> FALSE, v |-> set]

\* Set.Elements() of a null set is empty
Elements(s) == IF s = NullSet THEN {} ELSE s

\* What a []string carries over the wire: an empty repeated field arrives nil
Wire(slice) == IF slice = NilStrings \/ slice = {} THEN NilStrings ELSE slice
Received(slice) == IF slice = NilStrings THEN {} ELSE slice

Absent == [present |-> FALSE]

----------------------------------------------------------------------------
(* The history of steps *)

\* what a handler observed: whether it found its entity remotely, the
\* expiration of the key it found, its first and its last reading of the clock,
\* whether other clients changed the remote tables between its RPCs, and
\* whether reading one of its inputs gave an error (unread)
NoObs == [found |-> FALSE, expiration |-> 0, first |-> 0, clock |-> 0,
          interfered |-> FALSE, unread |-> FALSE]

Obs(expiration, first, clock, interfered) ==
    [found |-> TRUE, expiration |-> expiration, first |-> first, clock |-> clock,
     interfered |-> interfered, unread |-> FALSE]

\* one step: the handler (op), whether its diagnostics hold an error (err), the
\* RPCs it issued in order (rpcs), whether the remote tables / the stored
\* record differ from before the step, the stored record it leaves (post),
\* its inputs (plan) and what it observed remotely (obs)
Entry(op, err, rpcs, remoteAfter, stateAfter, plan, obs) ==
    [op |-> op, err |-> err, rpcs |-> rpcs,
     remoteChanged |-> remoteAfter # remote,
     stateChanged |-> stateAfter # state,
     post |-> stateAfter, plan |-> plan, obs |-> obs]

\* the latest step and the one before it
Push(e) == IF hist = <<>> THEN <<e>> ELSE <<e, Head(hist)>>

\* a handler that issues an RPC a second time when it failed
Step_Retry(op, err, rpcs, remoteAfter, stateAfter, plan, obs) ==
    LET last == IF rpcs = <<>> THEN <<>> ELSE <<rpcs[Len(rpcs)]>>
        issued == IF last # <<>> /\ ~last[1].ok THEN rpcs \o last ELSE rpcs
    IN /\ remote' = remoteAfter
       /\ state' = stateAfter
       /\ hist' = Push(Entry(op, err, issued, remoteAfter, stateAfter, plan,
                             obs))

\* the handler's step: the remote tables, the stored record and the history
Step(op, err, rpcs, remoteAfter, stateAfter, plan, obs) ==
    /\ remote' = remoteAfter
    /\ state' = stateAfter
    /\ hist' = Push(Entry(op, err, rpcs, remoteAfter, stateAfter, plan, obs))

Rpc(name, req, ok) == [name |-> name, req |-> req, ok |-> ok]

----------------------------------------------------------------------------
(* The remote service: nodes *)

NodeIds == 1..MaxNode
Tags == {"tag:a", "tag:b"}
Routes == {"10.0.0.0/8", "192.168.0.0/24"}

\* the values a configuration may name: the ones above and others
TagInputs == Tags \cup {"admin", "xtag:a"}
RouteInputs == Routes \cup {"10.0.0.0", "/8"}

\* the characters of each value
Chars ==
    [v \in TagInputs \cup RouteInputs |->
        CASE v = "tag:a" -> <<"t", "a", "g", ":", "a">>
          [] v = "tag:b" -> <<"t", "a", "g", ":", "b">>
          [] v = "admin" -> <<"a", "d", "m", "i", "n">>
          [] v = "xtag:a" -> <<"x", "t", "a", "g", ":", "a">>
          [] v = "10.0.0.0/8" ->
                <<"1", "0", ".", "0", ".", "0", ".", "0", "/", "8">>
          [] v = "192.168.0.0/24" ->
                <<"1", "9", "2", ".", "1", "6", "8", ".", "0", ".", "0", "/",
                  "2", "4">>
          [] v = "10.0.0.0" -> <<"1", "0", ".", "0", ".", "0", ".", "0">>
          [] v = "/8" -> <<"/", "8">>]

\* the class [\w-] of the tag pattern
IsTagChar(c) ==
    c \in {"a", "b", "c", "d", "e", "f", "g", "h", "i", "j", "k", "l", "m",
           "n", "o", "p", "q", "r", "s", "t", "u", "v", "w", "x", "y", "z",
           "A", "B", "C", "D", "E", "F", "G", "H", "I", "J", "K", "L", "M",
           "N", "O", "P", "Q", "R", "S", "T", "U", "V", "W", "X", "Y", "Z",
           "0", "1", "2", "3", "4", "5", "6", "7", "8", "9", "_", "-"}

\* regexp.MustCompile(`tag:[\w-]+`).MatchString(s): the pattern matches
\* somewhere in s
TagRegexMatches(s) ==
    \E i \in 1..Len(s) :
        /\ i + 4 <= Len(s)
        /\ SubSeq(s, i, i + 3) = <<"t", "a", "g", ":">>
        /\ IsTagChar(s[i + 4])

\* regexp.MustCompile(`.+/.+`).MatchString(s): a "/" of s with a character
\* on either side (no value holds a line break)
RouteRegexMatches(s) ==
    \E i \in 1..Len(s) : i > 1 /\ i < Len(s) /\ s[i] = "/"

\* setvalidator.ValueStringsAre(stringvalidator.RegexMatches(...)): every
\* element of a set that is not null matches; RegexMatches passes over an
\* element that is null
TagsValidator(set) ==
    set = NullSet
    \/ \A v \in set : v = NullElement \/ TagRegexMatches(Chars[v])
RoutesValidator(set) ==
    set = NullSet
    \/ \A v \in set : v = NullElement \/ RouteRegexMatches(Chars[v])

\* the sets of tags and of routes a configuration gives
PlanTags == (SUBSET Tags) \cup {{"admin"}, {"xtag:a"}}
PlanRoutes == (SUBSET Routes) \cup {{"10.0.0.0"}, {"/8"}}

\* a nil *v1.Node: the nil-safe getters give zero values
NilNode == [present |-> FALSE, id |-> 0, name |-> "", user |-> 0,
            forcedTags |-> NilStrings, approvedRoutes |-> NilStrings]

NodeMsg(n) == [present |-> TRUE, id |-> n.id, name |-> n.name, user |-> n.user,
               forcedTags |-> Wire(n.forcedTags),
               approvedRoutes |-> Wire(n.approvedRoutes)]

HasNode(r, id) == \E n \in r.nodes : n.id = id
NodeOf(r, id) == CHOOSE n \in r.nodes : n.id = id

\* GetNode: the node, or for a missing node an error or a response without a
\* node; any RPC may also fail in transport
RemoteGetNode(r, req) ==
    {[err |-> TRUE, node |-> NilNode, remote |-> r]} \cup
    IF HasNode(r, req.nodeId)
    THEN {[err |-> FALSE, node |-> NodeMsg(NodeOf(r, req.nodeId)), remote |-> r]}
    ELSE {[err |-> FALSE, node |-> NilNode, remote |-> r]}

\* a service that adds the tags of the request to the node's forced tags
RemoteSetTags_Merge(r, req) ==
    {[err |-> TRUE, node |-> NilNode, remote |-> r]} \cup
    IF HasNode(r, req.nodeId)
    THEN LET old == NodeOf(r, req.nodeId)
             new == [old EXCEPT !.forcedTags = @ \cup Received(req.tags)]
         IN {[err |-> FALSE, node |-> NodeMsg(new),
              remote |-> [r EXCEPT !.nodes = (@ \ {old}) \cup {new}]]}
    ELSE {}

\* SetTags: wholesale replacement of the node's forced tags
RemoteSetTags(r, req) ==
    {[err |-> TRUE, node |-> NilNode, remote |-> r]} \cup
    IF HasNode(r, req.nodeId)
    THEN LET old == NodeOf(r, req.nodeId)
             new == [old EXCEPT !.forcedTags = Received(req.tags)]
         IN {[err |-> FALSE, node |-> NodeMsg(new),
              remote |-> [r EXCEPT !.nodes = (@ \ {old}) \cup {new}]]}
    ELSE {}

\* SetApprovedRoutes: wholesale replacement of the node's approved routes
RemoteSetApprovedRoutes(r, req) ==
    {[err |-> TRUE, node |-> NilNode, remote |-> r]} \cup
    IF HasNode(r, req.nodeId)
    THEN LET old == NodeOf(r, req.nodeId)
             new == [old EXCEPT !.approvedRoutes = Received(req.routes)]
         IN {[err |-> FALSE, node |-> NodeMsg(new),
              remote |-> [r EXCEPT !.nodes = (@ \ {old}) \cup {new}]]}
    ELSE {}

----------------------------------------------------------------------------
(* NodeTagsResource *)

NodeTagsModel(id, nodeId, tags) ==
    [present |-> TRUE, id |-> id, nodeId |-> nodeId, tags |-> tags]

readComputedFieldsNodeTags(node, data) ==
    LET forcedTags == IF node.forcedTags = NilStrings THEN {} ELSE node.forcedTags
    IN [data EXCEPT !.tags = SetValueFrom(forcedTags)]

NodeTagsSetTagsRequest(nodeId, tags) ==
    [nodeId |-> ValueInt64(nodeId), tags |-> tags]

\* a request that leaves NodeId unset
NodeTagsGetNodeRequest_NoId(data) == [nodeId |-> 0]

NodeTagsGetNodeRequest(data) == [nodeId |-> ValueInt64(data.nodeId)]

\* a handler that sends only the tags the stored record lacks
NodeTagsUpdateTags_Diff(data, planTags) == planTags \ Elements(data.tags)

\* the tags Update sends: tags := []string{}, filled from the plan's "tags"
\* when they can be read
NodeTagsUpdateTags(data, planTags) == PlanGetAttribute(planTags).v

NodeTagsCreate ==
    /\ kind = "node_tags"
    /\ ~state.present
    /\ \E nodeId \in NodeIds, planTags \in PlanTags :
        LET plan == NodeTagsModel(NullInt, nodeId, planTags)
            data == [plan EXCEPT !.id = plan.nodeId]
            req == NodeTagsSetTagsRequest(data.nodeId, Elements(data.tags))
        IN IF ~TagsValidator(plan.tags)
           THEN Step("Create", TRUE, <<>>, remote, state, plan, NoObs)
           ELSE \E res \in RemoteSetTags(remote, req) :
            IF res.err
            THEN Step("Create", TRUE, <<Rpc("SetTags", req, FALSE)>>,
                      res.remote, state, plan, NoObs)
            ELSE Step("Create", FALSE, <<Rpc("SetTags", req, TRUE)>>,
                      res.remote, readComputedFieldsNodeTags(res.node, data),
                      plan, NoObs)
    /\ UNCHANGED <<kind, now>>

NodeTagsRead ==
    /\ kind = "node_tags"
    /\ state.present
    /\ LET data == state
           req == NodeTagsGetNodeRequest(data)
       IN \E res \in RemoteGetNode(remote, req) :
            IF res.err
            THEN Step("Read", TRUE, <<Rpc("GetNode", req, FALSE)>>,
                      res.remote, state, Absent, NoObs)
            ELSE IF ~res.node.present
            THEN Step("Read", TRUE, <<Rpc("GetNode", req, TRUE)>>,
                      res.remote, Absent, Absent, NoObs)
            ELSE Step("Read", FALSE, <<Rpc("GetNode", req, TRUE)>>,
                      res.remote, readComputedFieldsNodeTags(res.node, data),
                      Absent, [NoObs EXCEPT !.found = TRUE])
    /\ UNCHANGED <<kind, now>>

\* the diagnostics of Plan.GetAttribute are dropped: the RPC is issued
\* whether or not the tags were read
NodeTagsUpdate ==
    /\ kind = "node_tags"
    /\ state.present
    /\ \E planTags \in PlanTags \cup {{"tag:a", NullElement}} :
        LET data == state
            plan == NodeTagsModel(data.id, data.nodeId, planTags)
            req == NodeTagsSetTagsRequest(data.nodeId,
                                          NodeTagsUpdateTags(data, planTags))
            obs == [NoObs EXCEPT !.unread = PlanGetAttribute(planTags).err]
        IN IF ~TagsValidator(plan.tags)
           THEN Step("Update", TRUE, <<>>, remote, state, plan, NoObs)
           ELSE \E res \in RemoteSetTags(remote, req) :
            IF res.err
            THEN Step("Update", TRUE, <<Rpc("SetTags", req, FALSE)>>,
                      res.remote, state, plan, obs)
            ELSE Step("Update", FALSE, <<Rpc("SetTags", req, TRUE)>>,
                      res.remote, readComputedFieldsNodeTags(res.node, data),
                      plan, obs)
    /\ UNCHANGED <<kind, now>>

\* the request carries no tags; without an error the framework removes the
\* stored record
\* a Delete that sends the stored tags again
NodeTagsDeleteRequest_Stored(data) ==
    NodeTagsSetTagsRequest(data.nodeId, Elements(data.tags))

\* the request of Delete: NodeId and no Tags
NodeTagsDeleteRequest(data) == NodeTagsSetTagsRequest(data.nodeId, NilStrings)

NodeTagsDelete ==
    /\ kind = "node_tags"
    /\ state.present
    /\ LET data == state
           req == NodeTagsDeleteRequest(data)
       IN \E res \in RemoteSetTags(remote, req) :
            IF res.err
            THEN Step("Delete", TRUE, <<Rpc("SetTags", req, FALSE)>>,
                      res.remote, state, Absent, NoObs)
            ELSE Step("Delete", FALSE, <<Rpc("SetTags", req, TRUE)>>,
                      res.remote, Absent, Absent, NoObs)
    /\ UNCHANGED <<kind, now>>

----------------------------------------------------------------------------
(* NodeRoutesResource *)

NodeRoutesModel(id, nodeId, routes) ==
    [present |-> TRUE, id |-> id, nodeId |-> nodeId, routes |-> routes]

\* a refresh that forgets the record's id
readComputedFieldsNodeRoutes_DropsId(node, data) ==
    LET approvedRoutes == IF node.approvedRoutes = NilStrings THEN {}
                          ELSE node.approvedRoutes
    IN [data EXCEPT !.routes = SetValueFrom(approvedRoutes), !.id = NullInt]

readComputedFieldsNodeRoutes(node, data) ==
    LET approvedRoutes == IF node.approvedRoutes = NilStrings THEN {}
                          ELSE node.approvedRoutes
    IN [data EXCEPT !.routes = SetValueFrom(approvedRoutes)]

NodeRoutesSetApprovedRoutesRequest(nodeId, routes) ==
    [nodeId |-> ValueInt64(nodeId), routes |-> routes]

NodeRoutesGetNodeRequest(data) == [nodeId |-> ValueInt64(data.nodeId)]

\* a handler that adds the plan's routes to the stored ones
NodeRoutesUpdateRoutes_Union(data, planRoutes) ==
    planRoutes \cup Elements(data.routes)

\* the routes Update sends: routes := []string{}, filled from the plan's
\* "routes" when they can be read
NodeRoutesUpdateRoutes(data, planRoutes) == PlanGetAttribute(planRoutes).v

NodeRoutesCreate ==
    /\ kind = "node_routes"
    /\ ~state.present
    /\ \E nodeId \in NodeIds, planRoutes \in PlanRoutes :
        LET plan == NodeRoutesModel(NullInt, nodeId, planRoutes)
            data == [plan EXCEPT !.id = plan.nodeId]
            req == NodeRoutesSetApprovedRoutesRequest(data.nodeId,
                                                      Elements(data.routes))
        IN IF ~RoutesValidator(plan.routes)
           THEN Step("Create", TRUE, <<>>, remote, state, plan, NoObs)
           ELSE \E res \in RemoteSetApprovedRoutes(remote, req) :
            IF res.err
            THEN Step("Create", TRUE, <<Rpc("SetApprovedRoutes", req, FALSE)>>,
                      res.remote, state, plan, NoObs)
            ELSE Step("Create", FALSE, <<Rpc("SetApprovedRoutes", req, TRUE)>>,
                      res.remote, readComputedFieldsNodeRoutes(res.node, data),
                      plan, NoObs)
    /\ UNCHANGED <<kind, now>>

NodeRoutesRead ==
    /\ kind = "node_routes"
    /\ state.present
    /\ LET data == state
           req == NodeRoutesGetNodeRequest(data)
       IN \E res \in RemoteGetNode(remote, req) :
            IF res.err
            THEN Step("Read", TRUE, <<Rpc("GetNode", req, FALSE)>>,
                      res.remote, state, Absent, NoObs)
            ELSE IF ~res.node.present
            THEN Step("Read", TRUE, <<Rpc("GetNode", req, TRUE)>>,
                      res.remote, Absent, Absent, NoObs)
            ELSE Step("Read", FALSE, <<Rpc("GetNode", req, TRUE)>>,
                      res.remote, readComputedFieldsNodeRoutes(res.node, data),
                      Absent, [NoObs EXCEPT !.found = TRUE])
    /\ UNCHANGED <<kind, now>>

\* the diagnostics of Plan.GetAttribute are dropped: the RPC is issued
\* whether or not the routes were read
NodeRoutesUpdate ==
    /\ kind = "node_routes"
    /\ state.present
    /\ \E planRoutes \in PlanRoutes \cup {{"10.0.0.0/8", NullElement}} :
        LET data == state
            plan == NodeRoutesModel(data.id, data.nodeId, planRoutes)
            req == NodeRoutesSetApprovedRoutesRequest(
                       data.nodeId, NodeRoutesUpdateRoutes(data, planRoutes))
            obs == [NoObs EXCEPT !.unread = PlanGetAttribute(planRoutes).err]
        IN IF ~RoutesValidator(plan.routes)
           THEN Step("Update", TRUE, <<>>, remote, state, plan, NoObs)
           ELSE \E res \in RemoteSetApprovedRoutes(remote, req) :
            IF res.err
            THEN Step("Update", TRUE, <<Rpc("SetApprovedRoutes", req, FALSE)>>,
                      res.remote, state, plan, obs)
            ELSE Step("Update", FALSE, <<Rpc("SetApprovedRoutes", req, TRUE)>>,
                      res.remote, readComputedFieldsNodeRoutes(res.node, data),
                      plan, obs)
    /\ UNCHANGED <<kind, now>>

\* the request carries no routes; without an error the framework removes the
\* stored record
\* the request of Delete: NodeId and no Routes
NodeRoutesDeleteRequest(data) ==
    NodeRoutesSetApprovedRoutesRequest(data.nodeId, NilStrings)

NodeRoutesDelete ==
    /\ kind = "node_routes"
    /\ state.present
    /\ LET data == state
           req == NodeRoutesDeleteRequest(data)
       IN \E res \in RemoteSetApprovedRoutes(remote, req) :
            IF res.err
            THEN Step("Delete", TRUE, <<Rpc("SetApprovedRoutes", req, FALSE)>>,
                      res.remote, state, Absent, NoObs)
            ELSE Step("Delete", FALSE, <<Rpc("SetApprovedRoutes", req, TRUE)>>,
                      res.remote, Absent, Absent, NoObs)
    /\ UNCHANGED <<kind, now>>

----------------------------------------------------------------------------
(* Time: instants are clock ticks; time.RFC3339 prints whole seconds *)

TicksPerSecond == 2

\* t.Format(time.RFC3339): the text is determined by the whole seconds of t
Format(t) == t \div TicksPerSecond

\* time.Now().After(t)
After(clock, t) == clock > t

----------------------------------------------------------------------------
(* The remote service: users *)

UserNames == {"alice", "bob"}
\* what a configuration may give for an optional string: null, "", a text
OptionalTexts == {NullStr, "", "x"}

\* a nil *v1.User
NilUser == [present |-> FALSE, id |-> 0, name |-> "", email |-> "",
            displayName |-> "", createdAt |-> 0]

UserMsg(u) == [present |-> TRUE, id |-> u.id, name |-> u.name, email |-> u.email,
               displayName |-> u.displayName, createdAt |-> u.createdAt]

RECURSIVE ById(_)
\* the rows of a table as a list, in the order of their ids
ById(rows) ==
    IF rows = {} THEN <<>>
    ELSE LET first == CHOOSE x \in rows : \A y \in rows : x.id <= y.id
         IN <<first>> \o ById(rows \ {first})

\* the clock of the service's host, which may be ahead of the provider's
ServiceClock(r, clock) == clock + r.clockAhead

\* CreateUser: a new row with the next id, created at the service's clock
RemoteCreateUser(r, req, clock) ==
    {[err |-> TRUE, user |-> NilUser, remote |-> r]} \cup
    IF r.nextId <= MaxId /\ \A u \in r.users : u.name # req.name
    THEN LET new == [id |-> r.nextId, name |-> req.name, email |-> req.email,
                     displayName |-> req.displayName,
                     createdAt |-> ServiceClock(r, clock)]
         IN {[err |-> FALSE, user |-> UserMsg(new),
              remote |-> [r EXCEPT !.users = @ \cup {new}, !.nextId = @ + 1]]}
    ELSE {}

\* ListUsers: the users with the id of the request, all users when it has
\* none or when the service does not know the id filter; an empty list
\* arrives as nil
RemoteListUsers(r, req) ==
    {[err |-> TRUE, users |-> <<>>, remote |-> r],
     [err |-> FALSE, remote |-> r,
      users |-> ById({UserMsg(u) : u \in {v \in r.users :
                         r.listIgnoresId \/ req.id = 0 \/ v.id = req.id}})]}

\* RenameUser: the user of that id gets the new name
RemoteRenameUser(r, req) ==
    {[err |-> TRUE, user |-> NilUser, remote |-> r]} \cup
    IF /\ \E u \in r.users : u.id = req.oldId
       /\ \A u \in r.users : u.name # req.newName
    THEN LET old == CHOOSE u \in r.users : u.id = req.oldId
             new == [old EXCEPT !.name = req.newName]
         IN {[err |-> FALSE, user |-> UserMsg(new),
              remote |-> [r EXCEPT !.users = (@ \ {old}) \cup {new}]]}
    ELSE {}

\* DeleteUser: the user of that id is removed
RemoteDeleteUser(r, req) ==
    {[err |-> TRUE, remote |-> r]} \cup
    IF \E u \in r.users : u.id = req.id
    THEN {[err |-> FALSE,
           remote |-> [r EXCEPT !.users = {u \in @ : u.id # req.id}]]}
    ELSE {}

----------------------------------------------------------------------------
(* UserResource *)

UserModel(id, name, email, displayName, createdAt) ==
    [present |-> TRUE, id |-> id, name |-> name, email |-> email,
     displayName |-> displayName, createdAt |-> createdAt]

readComputedFieldsUser(user, data) ==
    [data EXCEPT !.createdAt = Format(user.createdAt),
                 !.id = user.id,
                 !.name = user.name,
                 !.email = IF user.email = "" THEN NullStr ELSE user.email,
                 !.displayName = IF user.displayName = "" THEN NullStr
                                 ELSE user.displayName]

\* the unset fields of the request keep Go's zero value
UserCreateUserRequest(data) ==
    [name |-> ValueString(data.name),
     displayName |-> IF data.displayName # NullStr
                     THEN ValueString(data.displayName) ELSE "",
     email |-> IF data.email # NullStr THEN ValueString(data.email) ELSE ""]

\* a request that leaves Id unset, and so lists every user
UserListUsersRequest_NoId(data) == [id |-> 0]

UserListUsersRequest(data) == [id |-> ValueInt64(data.id)]

\* a test for the nil list alone
UserNotFound_NilOnly(users) == users = <<>>

\* response.GetUsers() == nil || len(response.Users) != 1
UserNotFound(users) == users = <<>> \/ Len(users) # 1

\* a request that carries the email of the record as well
UserRenameUserRequest_WithEmail(data, newName) ==
    [oldId |-> ValueInt64(data.id), newName |-> newName,
     email |-> ValueString(data.email)]

UserRenameUserRequest(data, newName) ==
    [oldId |-> ValueInt64(data.id), newName |-> newName]

UserCreate ==
    /\ kind = "user"
    /\ ~state.present
    /\ \E name \in {"alice"}, email \in OptionalTexts,
          displayName \in OptionalTexts :
        LET plan == UserModel(NullInt, name, email, displayName, NullInt)
            data == plan
            req == UserCreateUserRequest(data)
        IN \E res \in RemoteCreateUser(remote, req, now) :
            IF res.err
            THEN Step("Create", TRUE, <<Rpc("CreateUser", req, FALSE)>>,
                      res.remote, state, plan, NoObs)
            ELSE Step("Create", FALSE, <<Rpc("CreateUser", req, TRUE)>>,
                      res.remote, readComputedFieldsUser(res.user, data),
                      plan, NoObs)
    /\ UNCHANGED <<kind, now>>

UserRead ==
    /\ kind = "user"
    /\ state.present
    /\ LET data == state
           req == UserListUsersRequest(data)
       IN \E res \in RemoteListUsers(remote, req) :
            IF res.err
            THEN Step("Read", TRUE, <<Rpc("ListUsers", req, FALSE)>>,
                      res.remote, state, Absent, NoObs)
            ELSE IF UserNotFound(res.users)
            THEN Step("Read", TRUE, <<Rpc("ListUsers", req, TRUE)>>,
                      res.remote, Absent, Absent, NoObs)
            ELSE Step("Read", FALSE, <<Rpc("ListUsers", req, TRUE)>>,
                      res.remote, readComputedFieldsUser(res.users[1], data),
                      Absent, [NoObs EXCEPT !.found = TRUE])
    /\ UNCHANGED <<kind, now>>

UserUpdate ==
    /\ kind = "user"
    /\ state.present
    /\ \E newName \in UserNames :
        LET data == state
            plan == [data EXCEPT !.name = newName]
            req == UserRenameUserRequest(data, newName)
        IN \E res \in RemoteRenameUser(remote, req) :
            IF res.err
            THEN Step("Update", TRUE, <<Rpc("RenameUser", req, FALSE)>>,
                      res.remote, state, plan, NoObs)
            ELSE Step("Update", FALSE, <<Rpc("RenameUser", req, TRUE)>>,
                      res.remote, readComputedFieldsUser(res.user, data),
                      plan, NoObs)
    /\ UNCHANGED <<kind, now>>

\* without an error the framework removes the stored record
UserDelete ==
    /\ kind = "user"
    /\ state.present
    /\ LET data == state
           req == [id |-> ValueInt64(data.id)]
       IN \E res \in RemoteDeleteUser(remote, req) :
            IF res.err
            THEN Step("Delete", TRUE, <<Rpc("DeleteUser", req, FALSE)>>,
                      res.remote, state, Absent, NoObs)
            ELSE Step("Delete", FALSE, <<Rpc("DeleteUser", req, TRUE)>>,
                      res.remote, Absent, Absent, NoObs)
    /\ UNCHANGED <<kind, now>>

\* the identifiers an import of a user is asked for
UserImportIds == {<<"1">>, <<"4", "2">>}

\* State.SetAttribute(ctx, path, val) where the attribute at path is an
\* Int64Attribute: a types.Int64 is stored, a Go string is refused with a
\* value conversion error whatever its text
SetInt64Attribute(data, val) ==
    IF val.goType = "string" THEN [err |-> TRUE, data |-> data]
    ELSE [err |-> FALSE, data |-> [data EXCEPT !.id = val.v]]

\* resource.ImportStatePassthroughID(ctx, path.Root("id"), req, resp): the
\* identifier is handed to SetAttribute as the Go string it is
UserImportState ==
    /\ kind = "user"
    /\ ~state.present
    /\ \E id \in UserImportIds :
        LET empty == UserModel(NullInt, NullStr, NullStr, NullStr, NullStr)
            set == SetInt64Attribute(empty, [goType |-> "string", v |-> id])
        IN IF set.err
           THEN Step("ImportState", TRUE, <<>>, remote, state, [id |-> id],
                     NoObs)
           ELSE Step("ImportState", FALSE, <<>>, remote, set.data,
                     [id |-> id], NoObs)
    /\ UNCHANGED <<kind, now>>

----------------------------------------------------------------------------
(* Texts that the code takes apart are sequences of one-character strings *)

NullChars == <<"<null>">>

DigitValue == [c \in {"0", "1", "2", "3", "4", "5", "6", "7", "8", "9"} |->
                 CASE c = "0" -> 0 [] c = "1" -> 1 [] c = "2" -> 2 [] c = "3" -> 3
                   [] c = "4" -> 4 [] c = "5" -> 5 [] c = "6" -> 6 [] c = "7" -> 7
                   [] c = "8" -> 8 [] c = "9" -> 9]

IsDigit(c) == c \in DOMAIN DigitValue

RECURSIVE leadingInt(_, _)
\* the leading digits of s as a number, and the rest of s
leadingInt(s, x) ==
    IF s # <<>> /\ IsDigit(Head(s))
    THEN leadingInt(Tail(s), x * 10 + DigitValue[Head(s)])
    ELSE [x |-> x, rest |-> s]

RECURSIVE unitLen(_)
\* the unit is everything up to the next digit or '.'
unitLen(s) ==
    IF s = <<>> \/ IsDigit(Head(s)) \/ Head(s) = "." THEN 0
    ELSE 1 + unitLen(Tail(s))

\* time.ParseDuration's unitMap, in ticks; units below a tick are divided;
\* v > 1<<63 / unit is an overflow (hours and minutes; no number of seconds
\* the model writes reaches it)
unitMap(u, v) ==
    CASE u = <<"h">> -> IF v > 2562047 THEN [ok |-> FALSE, d |-> 0]
                        ELSE [ok |-> TRUE, d |-> v * 3600 * TicksPerSecond]
      [] u = <<"m">> -> IF v > 153722867 THEN [ok |-> FALSE, d |-> 0]
                        ELSE [ok |-> TRUE, d |-> v * 60 * TicksPerSecond]
      [] u = <<"s">> -> [ok |-> TRUE, d |-> v * TicksPerSecond]
      [] u = <<"m", "s">> -> [ok |-> TRUE, d |-> (v * TicksPerSecond) \div 1000]
      [] u \in {<<"u", "s">>, <<"µ", "s">>} ->
            [ok |-> TRUE, d |-> (v * TicksPerSecond) \div 1000000]
      [] u = <<"n", "s">> ->
            [ok |-> TRUE, d |-> (v * TicksPerSecond) \div 1000000000]
      [] OTHER -> [ok |-> FALSE, d |-> 0]

RECURSIVE parseGroups(_, _)
\* one or more <digits><unit> groups, summed (fractions are not modelled)
parseGroups(s, d) ==
    IF s = <<>> THEN [err |-> FALSE, d |-> d]
    ELSE IF ~IsDigit(Head(s)) THEN [err |-> TRUE, d |-> 0]
    ELSE LET n == leadingInt(s, 0)
             ul == unitLen(n.rest)
             u == unitMap(SubSeq(n.rest, 1, ul), n.x)
         IN IF ul = 0 \/ ~u.ok THEN [err |-> TRUE, d |-> 0]
            ELSE parseGroups(SubSeq(n.rest, ul + 1, Len(n.rest)), d + u.d)

\* time.ParseDuration(s): [err, d], d in ticks
ParseDuration(s) ==
    IF s = <<>> THEN [err |-> TRUE, d |-> 0]
    ELSE LET neg == Head(s) = "-"
             body == IF Head(s) \in {"-", "+"} THEN Tail(s) ELSE s
         IN IF body = <<"0">> THEN [err |-> FALSE, d |-> 0]
            ELSE IF body = <<>> THEN [err |-> TRUE, d |-> 0]
            ELSE LET g == parseGroups(body, 0)
                 IN IF g.err THEN g
                    ELSE [err |-> FALSE, d |-> IF neg THEN 0 - g.d ELSE g.d]

\* a validator that accepts every text
TtlValidator_Any(s) == TRUE

\* the ttl validator of both key schemas, ^\d+(ns|us|µs|ms|s|m|h)$; a null
\* value is not validated
TtlValidator(s) ==
    \/ s = NullChars
    \/ /\ s # <<>> /\ IsDigit(Head(s))
       /\ leadingInt(s, 0).rest \in {<<"n", "s">>, <<"u", "s">>, <<"µ", "s">>,
                                     <<"m", "s">>, <<"s">>, <<"m">>, <<"h">>}

\* ttl texts a configuration may hold that are no duration of the schema:
\* an unknown unit, two groups, more hours than a Duration holds
MalformedTtls ==
    {<<"1", "x">>, <<"1", "h", "1", "m">>,
     <<"2", "5", "6", "2", "0", "4", "8", "h">>}

\* Types.String.ValueString() of a text
ValueChars(s) == IF s = NullChars THEN <<>> ELSE s

RECURSIVE firstSegment(_, _)
\* strings.Split(s, sep)[0]
firstSegment(s, sep) ==
    IF s = <<>> \/ Head(s) = sep THEN <<>>
    ELSE <<Head(s)>> \o firstSegment(Tail(s), sep)

RECURSIVE Split(_, _)
\* strings.Split(s, sep): the segments of s between the separators
Split(s, sep) ==
    LET first == firstSegment(s, sep)
    IN IF Len(first) = Len(s) THEN <<first>>
       ELSE <<first>> \o Split(SubSeq(s, Len(first) + 2, Len(s)), sep)

\* strconv.Atoi(s): [err, n]; an optional sign, then digits only
Atoi(s) ==
    LET body == IF s # <<>> /\ Head(s) \in {"-", "+"} THEN Tail(s) ELSE s
        n == leadingInt(body, 0)
    IN IF body = <<>> \/ n.rest # <<>> THEN [err |-> TRUE, n |-> 0]
       ELSE [err |-> FALSE,
             n |-> IF Head(s) = "-" THEN 0 - n.x ELSE n.x]

\* the instants at which a handler reads the clock a second time: the clock
\* may have advanced since its first reading
LaterClock == {t \in {now, now + 1} : t <= MaxNow}

----------------------------------------------------------------------------
(* The remote service: pre auth keys *)

PakSecret(id) == "secret-" \o ToString(id)

\* a nil *v1.PreAuthKey
NilPreAuthKey == [present |-> FALSE, id |-> 0, user |-> 0, key |-> "",
                  reusable |-> FALSE, ephemeral |-> FALSE, aclTags |-> NilStrings,
                  expiration |-> 0, createdAt |-> 0]

\* the message for a row; a list response carries the secret only when the
\* service reveals it
PreAuthKeyMsg(k, reveal) ==
    [present |-> TRUE, id |-> k.id, user |-> k.user,
     key |-> IF reveal THEN k.key ELSE "",
     reusable |-> k.reusable, ephemeral |-> k.ephemeral,
     aclTags |-> Wire(k.aclTags), expiration |-> k.expiration,
     createdAt |-> k.createdAt]

\* CreatePreAuthKey: a new row with the next id and a fresh secret
RemoteCreatePreAuthKey(r, req, clock) ==
    {[err |-> TRUE, preAuthKey |-> NilPreAuthKey, remote |-> r]} \cup
    IF r.nextId <= MaxId
    THEN LET new == [id |-> r.nextId, user |-> req.user, key |-> PakSecret(r.nextId),
                     reusable |-> req.reusable, ephemeral |-> req.ephemeral,
                     aclTags |-> Received(req.aclTags),
                     expiration |-> req.expiration,
                     createdAt |-> ServiceClock(r, clock)]
         IN {[err |-> FALSE, preAuthKey |-> PreAuthKeyMsg(new, TRUE),
              remote |-> [r EXCEPT !.preAuthKeys = @ \cup {new},
                                   !.nextId = @ + 1]]}
    ELSE {}

\* ListPreAuthKeys: the rows of the user, in the order of their ids
RemoteListPreAuthKeys(r, req) ==
    {[err |-> TRUE, preAuthKeys |-> <<>>, remote |-> r],
     [err |-> FALSE, remote |-> r,
      preAuthKeys |-> ById({PreAuthKeyMsg(k, r.listRevealsKey) :
                               k \in {x \in r.preAuthKeys : x.user = req.user}})]}

\* ExpirePreAuthKey: the row stays, its expiration becomes the service's clock
RemoteExpirePreAuthKey(r, req, clock) ==
    {[err |-> TRUE, remote |-> r]} \cup
    IF \E k \in r.preAuthKeys : k.user = req.user /\ k.key = req.key
    THEN LET old == CHOOSE k \in r.preAuthKeys :
                        k.user = req.user /\ k.key = req.key
             new == [old EXCEPT !.expiration = ServiceClock(r, clock)]
         IN {[err |-> FALSE,
              remote |-> [r EXCEPT !.preAuthKeys = (@ \ {old}) \cup {new}]]}
    ELSE {}

----------------------------------------------------------------------------
(* PreAuthKeyResource *)

PreAuthKeyModel(userId, reusable, ephemeral, ttl, aclTags) ==
    [present |-> TRUE, id |-> NullInt, userId |-> userId,
     reusable |-> reusable, ephemeral |-> ephemeral, ttl |-> ttl,
     aclTags |-> aclTags, expired |-> NullBool, createdAt |-> NullInt,
     expiration |-> NullInt, key |-> NullStr]

\* the plans a configuration gives
PreAuthKeyPlans ==
    {PreAuthKeyModel(1, "false", "false", ttl, NullSet) :
        ttl \in {NullChars} \cup MalformedTtls}
    \cup {PreAuthKeyModel(2, "true", "true", <<"5", "0", "0", "m", "s">>,
                           aclTags) : aclTags \in {{"tag:a"}, {"admin"}}}

\* clock is the handler's reading of time.Now()
readComputedFieldsPreAuthKey(key, data, clock) ==
    [data EXCEPT !.createdAt = Format(key.createdAt),
                 !.expiration = Format(key.expiration),
                 !.key = key.key,
                 !.id = key.id,
                 !.expired = BoolValue(After(clock, key.expiration)),
                 !.reusable = BoolValue(key.reusable),
                 !.ephemeral = BoolValue(key.ephemeral)]

\* a default of one minute
PreAuthKeyDefaultTtl_Minute == 1 * 60 * TicksPerSecond

\* the default of an absent ttl: 1 * time.Hour
PreAuthKeyDefaultTtl == 1 * 3600 * TicksPerSecond

\* the expiration Create asks for: [err, t]
PreAuthKeyExpiration(data, clock) ==
    IF data.ttl = NullChars
    THEN [err |-> FALSE, t |-> clock + PreAuthKeyDefaultTtl]
    ELSE LET ttl == ParseDuration(ValueChars(data.ttl))
         IN IF ttl.err THEN [err |-> TRUE, t |-> 0]
            ELSE [err |-> FALSE, t |-> clock + ttl.d]

PreAuthKeyCreateRequest(data, expiration) ==
    [user |-> ValueInt64(data.userId),
     reusable |-> ValueBool(data.reusable),
     ephemeral |-> ValueBool(data.ephemeral),
     expiration |-> expiration,
     aclTags |-> Elements(data.aclTags)]

PreAuthKeyListRequest(data) == [user |-> ValueInt64(data.userId)]

RECURSIVE PreAuthKeyFind(_, _)
\* the scan of the list: the last key with that id, nil when there is none
PreAuthKeyFind(keys, id) ==
    IF keys = <<>> THEN NilPreAuthKey
    ELSE LET later == PreAuthKeyFind(Tail(keys), id)
         IN IF later.present THEN later
            ELSE IF Head(keys).id = id THEN Head(keys) ELSE NilPreAuthKey

\* a test that removes the record from the instant of the expiration on
PreAuthKeyReadRemoves_AtExpiry(clock, preAuthKey) ==
    clock >= preAuthKey.expiration

\* time.Now().After(preAuthKey.GetExpiration().AsTime())
PreAuthKeyReadRemoves(clock, preAuthKey) == After(clock, preAuthKey.expiration)

\* a request that names the key by nothing
PreAuthKeyExpireRequest_NoKey(data) ==
    [user |-> ValueInt64(data.userId), key |-> ""]

PreAuthKeyExpireRequest(data) ==
    [user |-> ValueInt64(data.userId), key |-> ValueString(data.key)]

\* an Update that adds no error
PreAuthKeyUpdate_NoDiagnostics == <<>>

PreAuthKeyUpdateDiagnostics == <<"Error updating pre auth key">>

\* a plan whose ttl the schema's validator rejects never reaches the handler:
\* the operation ends with the validator's error
PreAuthKeyCreate ==
    /\ kind = "pre_auth_key"
    /\ ~state.present
    /\ \E plan \in PreAuthKeyPlans, clock2 \in LaterClock :
        LET data == plan
            expiration == PreAuthKeyExpiration(data, now)
            req == PreAuthKeyCreateRequest(data, expiration.t)
        IN IF ~TtlValidator(data.ttl) \/ ~TagsValidator(data.aclTags)
              \/ expiration.err
           THEN /\ Step("Create", TRUE, <<>>, remote, state, plan, NoObs)
                /\ now' = now
           ELSE \E res \in RemoteCreatePreAuthKey(remote, req, now) :
                IF res.err
                THEN /\ Step("Create", TRUE,
                             <<Rpc("CreatePreAuthKey", req, FALSE)>>,
                             res.remote, state, plan, NoObs)
                     /\ now' = now
                ELSE /\ Step("Create", FALSE,
                             <<Rpc("CreatePreAuthKey", req, TRUE)>>, res.remote,
                             readComputedFieldsPreAuthKey(res.preAuthKey, data,
                                                          clock2),
                             plan,
                             Obs(res.preAuthKey.expiration, now, clock2, FALSE))
                     /\ now' = clock2
    /\ UNCHANGED kind

\* the record is written and then removed again when the key has expired
PreAuthKeyRead ==
    /\ kind = "pre_auth_key"
    /\ state.present
    /\ \E clock2 \in LaterClock :
        LET data == state
            req == PreAuthKeyListRequest(data)
        IN \E res \in RemoteListPreAuthKeys(remote, req) :
            IF res.err
            THEN /\ Step("Read", TRUE, <<Rpc("ListPreAuthKeys", req, FALSE)>>,
                         res.remote, state, Absent, NoObs)
                 /\ now' = now
            ELSE LET preAuthKey == PreAuthKeyFind(res.preAuthKeys,
                                                  ValueInt64(data.id))
                     read == readComputedFieldsPreAuthKey(preAuthKey, data, now)
                     refreshed == [read EXCEPT
                                     !.reusable = BoolValue(preAuthKey.reusable),
                                     !.ephemeral = BoolValue(preAuthKey.ephemeral),
                                     !.aclTags = SetValueFrom(preAuthKey.aclTags)]
                 IN IF ~preAuthKey.present
                    THEN /\ Step("Read", TRUE,
                                 <<Rpc("ListPreAuthKeys", req, TRUE)>>,
                                 res.remote, Absent, Absent, NoObs)
                         /\ now' = now
                    ELSE /\ Step("Read", FALSE,
                                 <<Rpc("ListPreAuthKeys", req, TRUE)>>,
                                 res.remote,
                                 IF PreAuthKeyReadRemoves(clock2, preAuthKey)
                                 THEN Absent ELSE refreshed,
                                 Absent,
                                 Obs(preAuthKey.expiration, now, clock2, FALSE))
                         /\ now' = clock2
    /\ UNCHANGED kind

PreAuthKeyUpdate ==
    /\ kind = "pre_auth_key"
    /\ state.present
    /\ \E plan \in {p \in PreAuthKeyPlans :
                        TtlValidator(p.ttl) /\ TagsValidator(p.aclTags)} :
        Step("Update", PreAuthKeyUpdateDiagnostics # <<>>, <<>>, remote, state,
             plan, NoObs)
    /\ UNCHANGED <<kind, now>>

\* without an error the framework removes the stored record
PreAuthKeyDelete ==
    /\ kind = "pre_auth_key"
    /\ state.present
    /\ LET data == state
           req == PreAuthKeyExpireRequest(data)
       IN \E res \in RemoteExpirePreAuthKey(remote, req, now) :
            IF res.err
            THEN Step("Delete", TRUE, <<Rpc("ExpirePreAuthKey", req, FALSE)>>,
                      res.remote, state, Absent, NoObs)
            ELSE Step("Delete", FALSE, <<Rpc("ExpirePreAuthKey", req, TRUE)>>,
                      res.remote, Absent, Absent, NoObs)
    /\ UNCHANGED <<kind, now>>

\* the identifiers an import is asked for
PreAuthKeyImportIds ==
    {<<"1", ",", "2">>, <<"2", ",", "2">>, <<"b", "a", "d">>, <<"1", ",">>,
     <<"1", ",", "2", ",", "1">>, <<"a", ",", "b">>}

\* only user_id and id are set; every other attribute stays null
PreAuthKeyImportState ==
    /\ kind = "pre_auth_key"
    /\ ~state.present
    /\ \E id \in PreAuthKeyImportIds :
        LET idParts == Split(id, ",")
            userId == Atoi(idParts[1])
            keyId == Atoi(idParts[2])
            plan == [id |-> id]
        IN IF Len(idParts) # 2 \/ idParts[1] = <<>> \/ idParts[2] = <<>>
           THEN Step("ImportState", TRUE, <<>>, remote, state, plan, NoObs)
           ELSE IF userId.err
           THEN Step("ImportState", TRUE, <<>>, remote, state, plan, NoObs)
           ELSE IF keyId.err
           THEN Step("ImportState", TRUE, <<>>, remote, state, plan, NoObs)
           ELSE Step("ImportState", FALSE, <<>>, remote,
                     [PreAuthKeyModel(userId.n, NullBool, NullBool, NullChars,
                                      NullSet) EXCEPT !.id = keyId.n],
                     plan, NoObs)
    /\ UNCHANGED <<kind, now>>

----------------------------------------------------------------------------
(* The remote service: api keys *)

\* the prefix the service indexes the key of that id by
ApiKeyPrefix(id) == <<"k", ToString(id)>>

\* the secrets CreateApiKey may return for the key of that id:
\* <prefix>.<secret>, a secret with a "." of its own, the bare prefix, and
\* <prefix>-<secret> after a fixed head
ApiKeySecrets(id) ==
    {ApiKeyPrefix(id) \o <<".", "s">>,
     ApiKeyPrefix(id) \o <<".", "s", ".", "t">>,
     ApiKeyPrefix(id),
     <<"h", "-">> \o ApiKeyPrefix(id) \o <<"-", "s">>}

\* a nil *v1.ApiKey
NilApiKey == [present |-> FALSE, prefix |-> <<>>, expiration |-> 0,
              createdAt |-> 0]

ApiKeyMsg(k) == [present |-> TRUE, prefix |-> k.prefix,
                 expiration |-> k.expiration, createdAt |-> k.createdAt]

RECURSIVE ByPrefix(_)
\* the api keys as a list, in the order of their ids
ByPrefix(rows) ==
    IF rows = {} THEN <<>>
    ELSE LET first == CHOOSE x \in rows : \A y \in rows : x.id <= y.id
         IN <<ApiKeyMsg(first)>> \o ByPrefix(rows \ {first})

\* CreateApiKey: a new row indexed by the prefix of a fresh secret
RemoteCreateApiKey(r, req, clock) ==
    {[err |-> TRUE, apiKey |-> <<>>, remote |-> r]} \cup
    IF r.nextId <= MaxId
    THEN {LET new == [id |-> r.nextId, prefix |-> ApiKeyPrefix(r.nextId),
                      secret |-> secret,
                      expiration |-> req.expiration,
                      createdAt |-> ServiceClock(r, clock)]
          IN [err |-> FALSE, apiKey |-> secret,
              remote |-> [r EXCEPT !.apiKeys = @ \cup {new}, !.nextId = @ + 1]]
          : secret \in ApiKeySecrets(r.nextId)}
    ELSE {}

\* ListApiKeys: all rows
RemoteListApiKeys(r) ==
    {[err |-> TRUE, apiKeys |-> <<>>, remote |-> r],
     [err |-> FALSE, apiKeys |-> ByPrefix(r.apiKeys), remote |-> r]}

\* DeleteApiKey: the row of that prefix is removed
RemoteDeleteApiKey(r, req) ==
    {[err |-> TRUE, remote |-> r]} \cup
    IF \E k \in r.apiKeys : k.prefix = req.prefix
    THEN {[err |-> FALSE,
           remote |-> [r EXCEPT !.apiKeys = {k \in @ : k.prefix # req.prefix}]]}
    ELSE {}

\* what other clients may have done to the api keys between two RPCs of one
\* handler: nothing, or removed one of them
BetweenRpcs(r) ==
    {r} \cup {[r EXCEPT !.apiKeys = @ \ {k}] : k \in r.apiKeys}

----------------------------------------------------------------------------
(* ApiKeyResource *)

ApiKeyModel(ttl) ==
    [present |-> TRUE, id |-> NullChars, ttl |-> ttl, expired |-> NullBool,
     createdAt |-> NullInt, expiration |-> NullInt, key |-> NullChars]

\* stringdefault.StaticString("2160h")
ApiKeyDefaultTtl == <<"2", "1", "6", "0", "h">>

\* the ttl of the plan: the default when the configuration sets none
ApiKeyPlannedTtl(configTtl) ==
    IF configTtl = NullChars THEN ApiKeyDefaultTtl ELSE configTtl

\* the plans a configuration gives
\* "expired" is Optional and Computed: a configuration may set it
ApiKeyPlans ==
    {ApiKeyModel(ApiKeyPlannedTtl(ttl)) : ttl \in {NullChars} \cup MalformedTtls}
    \cup {[ApiKeyModel(<<"0", "s">>) EXCEPT !.expired = "true"]}

RECURSIVE ApiKeyFind(_, _)
\* the scan of the list: the first key with that prefix, nil when there is none
ApiKeyFind(keys, prefix) ==
    IF keys = <<>> THEN NilApiKey
    ELSE IF prefix = Head(keys).prefix THEN Head(keys)
    ELSE ApiKeyFind(Tail(keys), prefix)

\* a reading of the fields that keeps the expired of the record it is given
readComputedFieldsApiKey_KeepsExpired(prefix, apiKeys, data, clock) ==
    LET apiKey == ApiKeyFind(apiKeys, prefix)
    IN IF ~apiKey.present THEN [isFound |-> FALSE, data |-> data, apiKey |-> apiKey]
       ELSE [isFound |-> TRUE, apiKey |-> apiKey,
             data |-> [data EXCEPT
                         !.expiration = Format(apiKey.expiration),
                         !.createdAt = Format(apiKey.createdAt),
                         !.expired = IF @ = NullBool
                                     THEN BoolValue(After(clock, apiKey.expiration))
                                     ELSE @]]

\* a reading of the fields that reports a key it did not find as found
readComputedFieldsApiKey_AlwaysFound(prefix, apiKeys, data, clock) ==
    LET apiKey == ApiKeyFind(apiKeys, prefix)
    IN IF ~apiKey.present THEN [isFound |-> TRUE, data |-> data, apiKey |-> apiKey]
       ELSE [isFound |-> TRUE, apiKey |-> apiKey,
             data |-> [data EXCEPT
                         !.expiration = Format(apiKey.expiration),
                         !.createdAt = Format(apiKey.createdAt),
                         !.expired = BoolValue(After(clock, apiKey.expiration))]]

\* [isFound, data]; clock is the handler's reading of time.Now()
readComputedFieldsApiKey(prefix, apiKeys, data, clock) ==
    LET apiKey == ApiKeyFind(apiKeys, prefix)
    IN IF ~apiKey.present THEN [isFound |-> FALSE, data |-> data, apiKey |-> apiKey]
       ELSE [isFound |-> TRUE, apiKey |-> apiKey,
             data |-> [data EXCEPT
                         !.expiration = Format(apiKey.expiration),
                         !.createdAt = Format(apiKey.createdAt),
                         !.expired = BoolValue(After(clock, apiKey.expiration))]]

ApiKeyCreateRequest(ttl, clock) == [expiration |-> clock + ttl.d]

\* strings.Split(response.GetApiKey(), ".")[0]
ApiKeyKeyPrefix(apiKey) == firstSegment(apiKey, ".")

\* a request that names the key by its whole secret
ApiKeyDeleteRequest_Key(data) == [prefix |-> ValueChars(data.key)]

ApiKeyDeleteRequest(data) == [prefix |-> ValueChars(data.id)]

ApiKeyUpdateDiagnostics == <<"Error updating api key">>

\* CreateApiKey, then ListApiKeys to read the computed fields of the new key
\* a plan whose ttl the schema's validator rejects never reaches the handler
ApiKeyCreate ==
    /\ kind = "api_key"
    /\ ~state.present
    /\ \E plan \in ApiKeyPlans, clock2 \in LaterClock :
        LET ttl == ParseDuration(ValueChars(plan.ttl))
            req == ApiKeyCreateRequest(ttl, now)
        IN IF ~TtlValidator(plan.ttl) \/ ttl.err
           THEN /\ Step("Create", TRUE, <<>>, remote, state, plan, NoObs)
                /\ now' = now
           ELSE \E res \in RemoteCreateApiKey(remote, req, now) :
                IF res.err
                THEN /\ Step("Create", TRUE, <<Rpc("CreateApiKey", req, FALSE)>>,
                             res.remote, state, plan, NoObs)
                     /\ now' = now
                ELSE LET keyPrefix == ApiKeyKeyPrefix(res.apiKey)
                         data == [plan EXCEPT !.key = res.apiKey,
                                              !.id = keyPrefix]
                     IN \E between \in BetweenRpcs(res.remote) :
                        \E list \in RemoteListApiKeys(between) :
                        LET read == readComputedFieldsApiKey(
                                        ValueChars(data.id), list.apiKeys, data,
                                        clock2)
                            rpcs == <<Rpc("CreateApiKey", req, TRUE),
                                      Rpc("ListApiKeys", <<>>, ~list.err)>>
                            others == [NoObs EXCEPT
                                         !.interfered = between # res.remote]
                        IN /\ now' = clock2
                           /\ IF list.err
                              THEN Step("Create", TRUE, rpcs, list.remote, state,
                                        plan, others)
                              ELSE IF ~read.isFound
                              THEN Step("Create", TRUE, rpcs, list.remote, Absent,
                                        plan, others)
                              ELSE Step("Create", FALSE, rpcs, list.remote,
                                        read.data, plan,
                                        Obs(read.apiKey.expiration, now, clock2,
                                            between # res.remote))
    /\ UNCHANGED kind

\* the record is written and then removed again when the key has expired
ApiKeyRead ==
    /\ kind = "api_key"
    /\ state.present
    /\ LET data == state
       IN \E list \in RemoteListApiKeys(remote) :
            LET read == readComputedFieldsApiKey(ValueChars(data.id),
                                                 list.apiKeys, data, now)
            IN IF list.err
               THEN Step("Read", TRUE, <<Rpc("ListApiKeys", <<>>, FALSE)>>,
                         list.remote, state, Absent, NoObs)
               ELSE IF ~read.isFound
               THEN Step("Read", FALSE, <<Rpc("ListApiKeys", <<>>, TRUE)>>,
                         list.remote, Absent, Absent, NoObs)
               ELSE Step("Read", FALSE, <<Rpc("ListApiKeys", <<>>, TRUE)>>,
                         list.remote,
                         IF ValueBool(read.data.expired) THEN Absent
                         ELSE read.data,
                         Absent,
                         Obs(read.apiKey.expiration, now, now, FALSE))
    /\ UNCHANGED <<kind, now>>

ApiKeyUpdate ==
    /\ kind = "api_key"
    /\ state.present
    /\ \E plan \in {p \in ApiKeyPlans : TtlValidator(p.ttl)} :
        Step("Update", ApiKeyUpdateDiagnostics # <<>>, <<>>, remote, state,
             plan, NoObs)
    /\ UNCHANGED <<kind, now>>

\* without an error the framework removes the stored record
ApiKeyDelete ==
    /\ kind = "api_key"
    /\ state.present
    /\ LET data == state
           req == ApiKeyDeleteRequest(data)
       IN \E res \in RemoteDeleteApiKey(remote, req) :
            IF res.err
            THEN Step("Delete", TRUE, <<Rpc("DeleteApiKey", req, FALSE)>>,
                      res.remote, state, Absent, NoObs)
            ELSE Step("Delete", FALSE, <<Rpc("DeleteApiKey", req, TRUE)>>,
                      res.remote, Absent, Absent, NoObs)
    /\ UNCHANGED <<kind, now>>

----------------------------------------------------------------------------
(* NodesDataSource *)

\* a []*v1.Node that is nil: a sentinel no list of the service equals
NilNodes == <<NilNode>>

RECURSIVE NodesInOrder(_)
\* the nodes as the service lists them: in the order of their ids
NodesInOrder(rows) ==
    IF rows = {} THEN <<>>
    ELSE LET first == CHOOSE x \in rows : \A y \in rows : x.id <= y.id
         IN <<NodeMsg(first)>> \o NodesInOrder(rows \ {first})

\* ListNodes, as the client hands it to the handler: an error, or the nodes in
\* order.  Of a service without nodes the generated stub decodes a nil slice;
\* another implementation of the client interface may hand out an empty one.
RemoteListNodes(r) ==
    {[err |-> TRUE, nodes |-> NilNodes, remote |-> r]} \cup
    {[err |-> FALSE, nodes |-> nodes, remote |-> r] :
        nodes \in IF r.nodes = {} THEN {NilNodes, <<>>}
                  ELSE {NodesInOrder(r.nodes)}}

NodesDataSourceModel(nodes) == [present |-> TRUE, nodes |-> nodes]

\* an entry that takes the node's own id for the user's
NodeModel_OwnId(node) ==
    [id |-> node.id, name |-> node.name, userId |-> node.id]

\* NodeModel{Id, Name, UserId: node.GetUser().GetId()}
NodeModel(node) == [id |-> node.id, name |-> node.name, userId |-> node.user]

\* result := make([]NodeModel, 0, len(nodes)), one entry appended per node
NodesDataSourceResult(nodes) == [i \in 1..Len(nodes) |-> NodeModel(nodes[i])]

\* a failed Read writes nothing
NodesDataSourceRead ==
    /\ kind = "nodes"
    /\ \E res \in RemoteListNodes(remote) :
        IF res.err
        THEN Step("Read", TRUE, <<Rpc("ListNodes", <<>>, FALSE)>>, res.remote,
                  state, Absent, NoObs)
        ELSE IF res.nodes = NilNodes
        THEN Step("Read", TRUE, <<Rpc("ListNodes", <<>>, TRUE)>>, res.remote,
                  state, Absent, NoObs)
        ELSE Step("Read", FALSE, <<Rpc("ListNodes", <<>>, TRUE)>>, res.remote,
                  NodesDataSourceModel(NodesDataSourceResult(res.nodes)),
                  Absent, [NoObs EXCEPT !.found = TRUE])
    /\ UNCHANGED <<kind, now>>

----------------------------------------------------------------------------
(* HeadscaleProvider *)

\* os.ReadFile(path) on the machine the provider runs on: [err, data]
ReadFile(path) ==
    CASE path = "/ca.pem" -> [err |-> FALSE, data |-> "CA-FILE"]
      [] path = "/junk.pem" -> [err |-> FALSE, data |-> "junk"]
      [] path = "/cert.pem" -> [err |-> FALSE, data |-> "CERT-FILE"]
      [] path = "/key.pem" -> [err |-> FALSE, data |-> "KEY-FILE"]
      [] OTHER -> [err |-> TRUE, data |-> ""]

\* strconv.ParseBool(str): [err, result]
ParseBool(str) ==
    IF str \in {"1", "t", "T", "TRUE", "true", "True"}
    THEN [err |-> FALSE, result |-> TRUE]
    ELSE IF str \in {"0", "f", "F", "FALSE", "false", "False"}
    THEN [err |-> FALSE, result |-> FALSE]
    ELSE [err |-> TRUE, result |-> FALSE]

\* certPool.AppendCertsFromPEM(pem): ok when pem holds a certificate
AppendCertsFromPEM(pem) == pem \in {"CA-INLINE", "CA-FILE"}

\* tls.X509KeyPair(certPEMBlock, keyPEMBlock): err unless the first holds a
\* certificate and the second its key
X509KeyPair(certPEMBlock, keyPEMBlock) ==
    [err |-> ~(/\ certPEMBlock \in {"CERT-INLINE", "CERT-FILE"}
               /\ keyPEMBlock \in {"KEY-INLINE", "KEY-FILE"})]

\* the provider block of a configuration; a tls block that is absent reads as
\* one whose attributes are all null
ProviderConfigs ==
    [endpoint : {NullStr, "", "inline:443"},
     apiKey : {NullStr, "inline-token"},
     insecure : {NullBool, "true", "false"},
     caPem : {NullStr, "CA-INLINE", "junk"},
     clientCertPem : {NullStr, "CERT-INLINE"},
     clientKeyPem : {NullStr, "KEY-INLINE"}]

\* the environment variables of the provider's process; "" is unset
ProviderEnvs ==
    [HEADSCALE_ENDPOINT : {"", "env:443"},
     HEADSCALE_API_KEY : {"", "env-token"},
     HEADSCALE_TLS_INSECURE : {"", "true", "yes"},
     HEADSCALE_TLS_CA_PATH : {"", "/ca.pem", "/junk.pem", "/missing"},
     HEADSCALE_TLS_CLIENT_CERT_PATH : {"", "/cert.pem", "/missing"},
     HEADSCALE_TLS_CLIENT_KEY_PATH : {"", "/key.pem", "/missing"}]

\* the client of HeadscaleProviderConfiguration and what it was built from
ProviderClient(target, apiKey, insecure, rootCAs, cert, key) ==
    [present |-> TRUE, target |-> target, apiKey |-> apiKey,
     insecure |-> insecure, rootCAs |-> rootCAs,
     clientCertPem |-> cert, clientKeyPem |-> key]

\* the test that guards the inline client key: it looks at ClientCertPem
ConfigureClientKeyInline(data) == data.clientCertPem # NullStr

\* Configure(data) in the environment env, where grpc.NewClient fails or not:
\* [diagnostics, client]; client is Absent when ResourceData and
\* DataSourceData stay unset
Configure(data, env, dialErr) ==
    LET none(diags) == [diagnostics |-> diags, client |-> Absent]
        target == IF data.endpoint # NullStr THEN ValueString(data.endpoint)
                  ELSE env.HEADSCALE_ENDPOINT
        apiKey == IF data.apiKey # NullStr THEN ValueString(data.apiKey)
                  ELSE env.HEADSCALE_API_KEY
        insecureEnv == env.HEADSCALE_TLS_INSECURE
        parsed == ParseBool(insecureEnv)
        insecureErr == data.insecure = NullBool /\ insecureEnv # "" /\ parsed.err
        insecure == IF data.insecure # NullBool THEN ValueBool(data.insecure)
                    ELSE IF insecureEnv # "" THEN parsed.result ELSE FALSE
        \* the branch of the ParseBool error adds the error and goes on
        diags1 == IF insecureErr
                  THEN <<"Fail to parse env HEADSCALE_TLS_INSECURE">> ELSE <<>>
        caPemPathEnv == env.HEADSCALE_TLS_CA_PATH
        caFile == ReadFile(caPemPathEnv)
        caInline == data.caPem # NullStr
        rootCAs == IF caInline THEN ValueString(data.caPem)
                   ELSE IF caPemPathEnv # "" THEN caFile.data ELSE ""
        tlsClientCertPathEnv == env.HEADSCALE_TLS_CLIENT_CERT_PATH
        certFile == ReadFile(tlsClientCertPathEnv)
        certInline == data.clientCertPem # NullStr
        tlsClientCertPem == IF certInline THEN ValueString(data.clientCertPem)
                            ELSE IF tlsClientCertPathEnv # "" THEN certFile.data
                            ELSE ""
        tlsClientKeyPemPathEnv == env.HEADSCALE_TLS_CLIENT_KEY_PATH
        keyFile == ReadFile(tlsClientKeyPemPathEnv)
        keyInline == ConfigureClientKeyInline(data)
        tlsClientKeyPem == IF keyInline THEN ValueString(data.clientKeyPem)
                           ELSE IF tlsClientKeyPemPathEnv # "" THEN keyFile.data
                           ELSE ""
    IN IF target = "" THEN none(<<"endpoint is not set">>)
       ELSE IF caInline /\ ~AppendCertsFromPEM(rootCAs)
       THEN none(diags1 \o <<"Fail to decode tls.ca_pem">>)
       ELSE IF ~caInline /\ caPemPathEnv # "" /\ caFile.err
       THEN none(diags1 \o <<"Fail to read HEADSCALE_TLS_CA_PATH">>)
       ELSE IF ~caInline /\ caPemPathEnv # "" /\ ~AppendCertsFromPEM(rootCAs)
       THEN none(diags1 \o <<"Fail to decode tls.HEADSCALE_TLS_CA_PATH">>)
       ELSE IF ~certInline /\ tlsClientCertPathEnv # "" /\ certFile.err
       THEN none(diags1 \o <<"Fail to read HEADSCALE_TLS_CLIENT_CERT_PATH">>)
       ELSE IF ~keyInline /\ tlsClientKeyPemPathEnv # "" /\ keyFile.err
       THEN none(diags1 \o <<"Fail to read HEADSCALE_TLS_CLIENT_KEY_PATH">>)
       ELSE IF /\ tlsClientCertPem # "" \/ tlsClientKeyPem # ""
               /\ X509KeyPair(tlsClientCertPem, tlsClientKeyPem).err
       THEN none(diags1 \o <<"Fail to read build tls client key pair">>)
       ELSE IF dialErr THEN none(diags1 \o <<"Create GRPC client error">>)
       ELSE [diagnostics |-> diags1,
             client |-> ProviderClient(target, apiKey, insecure, rootCAs,
                                       tlsClientCertPem, tlsClientKeyPem)]

\* Configure runs once, when the provider's process starts: the history
\* begins with it
HeadscaleProviderConfigure ==
    /\ kind = "provider"
    /\ hist = <<>>
    /\ \E data \in ProviderConfigs, env \in ProviderEnvs, dialErr \in BOOLEAN :
        LET res == Configure(data, env, dialErr)
        IN /\ state' = res.client
           /\ hist' = <<Entry("Configure", res.diagnostics # <<>>, <<>>, remote,
                               res.client, [data |-> data, env |-> env], NoObs)>>
    /\ UNCHANGED <<kind, remote, now>>

----------------------------------------------------------------------------
(* The environment *)

\* another client of the remote service removes a node
EnvRemoveNode ==
    /\ kind \in {"node_tags", "node_routes", "nodes"}
    /\ \E n \in remote.nodes :
        Step("Env", FALSE, <<>>, [remote EXCEPT !.nodes = @ \ {n}], state,
             Absent, NoObs)
    /\ UNCHANGED <<kind, now>>

\* another client of the remote service removes a user
EnvRemoveUser ==
    /\ kind = "user"
    /\ \E u \in remote.users :
        Step("Env", FALSE, <<>>, [remote EXCEPT !.users = @ \ {u}], state,
             Absent, NoObs)
    /\ UNCHANGED <<kind, now>>

\* another client of the remote service gives a user another email and
\* display name
EnvChangeUser ==
    /\ kind = "user"
    /\ \E u \in remote.users :
        /\ u.email # "y"
        /\ Step("Env", FALSE, <<>>,
                [remote EXCEPT !.users =
                    (@ \ {u}) \cup {[u EXCEPT !.email = "y",
                                                !.displayName = "z"]}],
                state, Absent, NoObs)
    /\ UNCHANGED <<kind, now>>

\* another client of the remote service removes a pre auth key
EnvRemovePreAuthKey ==
    /\ kind = "pre_auth_key"
    /\ \E k \in remote.preAuthKeys :
        Step("Env", FALSE, <<>>, [remote EXCEPT !.preAuthKeys = @ \ {k}], state,
             Absent, NoObs)
    /\ UNCHANGED <<kind, now>>

\* another client of the remote service removes an api key
EnvRemoveApiKey ==
    /\ kind = "api_key"
    /\ \E k \in remote.apiKeys :
        Step("Env", FALSE, <<>>, [remote EXCEPT !.apiKeys = @ \ {k}], state,
             Absent, NoObs)
    /\ UNCHANGED <<kind, now>>

\* the clock advances (only the handlers of the keys read it)
Tick ==
    /\ kind \in {"pre_auth_key", "api_key"}
    /\ now < MaxNow
    /\ now' = now + 1
    /\ UNCHANGED <<kind, remote, state, hist>>

----------------------------------------------------------------------------
(* NodeTagsResource and NodeRoutesResource: ImportState *)

\* the identifiers an import of a node's tags or routes is asked for
NodeImportIds ==
    {<<"1">>, <<"+", "2">>, <<"0", "2">>, <<"9">>, <<"-", "1">>, <<"n", "1">>,
     <<>>}

\* node_id and id are both set to the number the identifier reads as; the set
\* stays null
NodeTagsImportState ==
    /\ kind = "node_tags"
    /\ ~state.present
    /\ \E id \in NodeImportIds :
        LET parsed == Atoi(id)
            typedId == parsed.n
            plan == [id |-> id]
        IN IF parsed.err
           THEN Step("ImportState", TRUE, <<>>, remote, state, plan, NoObs)
           ELSE Step("ImportState", FALSE, <<>>, remote,
                     [NodeTagsModel(NullInt, typedId, NullSet)
                          EXCEPT !.id = typedId],
                     plan, NoObs)
    /\ UNCHANGED <<kind, now>>

NodeRoutesImportState ==
    /\ kind = "node_routes"
    /\ ~state.present
    /\ \E id \in NodeImportIds :
        LET parsed == Atoi(id)
            typedId == parsed.n
            plan == [id |-> id]
        IN IF parsed.err
           THEN Step("ImportState", TRUE, <<>>, remote, state, plan, NoObs)
           ELSE Step("ImportState", FALSE, <<>>, remote,
                     [NodeRoutesModel(NullInt, typedId, NullSet)
                          EXCEPT !.id = typedId],
                     plan, NoObs)
    /\ UNCHANGED <<kind, now>>

----------------------------------------------------------------------------
(* Two callers that update the set of the same node, each with a stored     *)
(* record of its own.  An Update is one RPC, which the service handles as   *)
(* one step, and then the write of the caller's record: the callers         *)
(* interleave at the RPC.  state.callers[c] is the position of caller c in  *)
(* its Update (pc), whether its diagnostics hold an error (err), the set of *)
(* its plan, the node of the response and its stored record (data).         *)

Callers == {1, 2}

\* NodeTagsResource.Update up to its RPC
NodeTagsUpdateIssue ==
    /\ kind = "node_tags_callers"
    /\ \E c \in Callers, planTags \in {t \in PlanTags : TagsValidator(t)} :
        /\ state.callers[c].pc = "idle"
        /\ LET data == state.callers[c].data
               req == NodeTagsSetTagsRequest(data.nodeId,
                                             NodeTagsUpdateTags(data, planTags))
           IN \E res \in RemoteSetTags(remote, req) :
                /\ remote' = res.remote
                /\ state' = [state EXCEPT !.callers[c] =
                                [@ EXCEPT !.pc = "answered", !.err = res.err,
                                          !.plan = planTags, !.node = res.node]]
    /\ UNCHANGED <<kind, now, hist>>

\* NodeTagsResource.Update from the answer of its RPC on
NodeTagsUpdateStore ==
    /\ kind = "node_tags_callers"
    /\ \E c \in Callers :
        /\ state.callers[c].pc = "answered"
        /\ LET data == state.callers[c].data
               node == state.callers[c].node
           IN state' = [state EXCEPT !.callers[c] =
                          [@ EXCEPT !.pc = "done",
                                    !.data = IF state.callers[c].err THEN data
                                             ELSE readComputedFieldsNodeTags(
                                                      node, data)]]
    /\ UNCHANGED <<kind, remote, now, hist>>

\* NodeRoutesResource.Update up to its RPC
NodeRoutesUpdateIssue ==
    /\ kind = "node_routes_callers"
    /\ \E c \in Callers, planRoutes \in {t \in PlanRoutes : RoutesValidator(t)} :
        /\ state.callers[c].pc = "idle"
        /\ LET data == state.callers[c].data
               req == NodeRoutesSetApprovedRoutesRequest(
                          data.nodeId, NodeRoutesUpdateRoutes(data, planRoutes))
           IN \E res \in RemoteSetApprovedRoutes(remote, req) :
                /\ remote' = res.remote
                /\ state' = [state EXCEPT !.callers[c] =
                                [@ EXCEPT !.pc = "answered", !.err = res.err,
                                          !.plan = planRoutes, !.node = res.node]]
    /\ UNCHANGED <<kind, now, hist>>

\* NodeRoutesResource.Update from the answer of its RPC on
NodeRoutesUpdateStore ==
    /\ kind = "node_routes_callers"
    /\ \E c \in Callers :
        /\ state.callers[c].pc = "answered"
        /\ LET data == state.callers[c].data
               node == state.callers[c].node
           IN state' = [state EXCEPT !.callers[c] =
                          [@ EXCEPT !.pc = "done",
                                    !.data = IF state.callers[c].err THEN data
                                             ELSE readComputedFieldsNodeRoutes(
                                                      node, data)]]
    /\ UNCHANGED <<kind, remote, now, hist>>

----------------------------------------------------------------------------
(* Specifications *)

InitRemote ==
    [nextId |-> 2,
     users |-> {[id |-> 1, name |-> "carol", email |-> "", displayName |-> "",
                 createdAt |-> 0]},
     preAuthKeys |-> {},
     apiKeys |-> {},
     listRevealsKey |-> TRUE,
     listIgnoresId |-> FALSE,
     clockAhead |-> 0,
     nodes |-> {[id |-> i, name |-> "node-" \o ToString(i), user |-> 1,
                 forcedTags |-> IF i = MaxNode THEN {"tag:b"} ELSE {},
                 approvedRoutes |-> IF i = MaxNode THEN {"10.0.0.0/8"} ELSE {}] :
                  i \in NodeIds}]

InitNode ==
    /\ kind \in {"node_tags", "node_routes"}
    /\ remote = InitRemote
    /\ state = Absent
    /\ now = 0
    /\ hist = <<>>

NextNode ==
    \/ NodeTagsCreate
    \/ NodeTagsRead
    \/ NodeTagsUpdate
    \/ NodeTagsDelete
    \/ NodeRoutesCreate
    \/ NodeRoutesRead
    \/ NodeRoutesUpdate
    \/ NodeRoutesDelete
    \/ NodeTagsImportState
    \/ NodeRoutesImportState
    \/ EnvRemoveNode

SpecNode == InitNode /\ [][NextNode]_vars

InitUser ==
    /\ kind = "user"
    /\ remote = InitRemote
    /\ state = Absent
    /\ now = MaxNow
    /\ hist = <<>>

NextUser ==
    \/ UserCreate
    \/ UserRead
    \/ UserUpdate
    \/ UserDelete
    \/ UserImportState
    \/ EnvRemoveUser
    \/ EnvChangeUser

SpecUser == InitUser /\ [][NextUser]_vars

\* the same, against a service that honours the id filter of ListUsers or one
\* that does not know it and lists every user
InitUserAnyList ==
    /\ kind = "user"
    /\ remote \in {InitRemote, [InitRemote EXCEPT !.listIgnoresId = TRUE]}
    /\ state = Absent
    /\ now = MaxNow
    /\ hist = <<>>

SpecUserAnyList == InitUserAnyList /\ [][NextUser]_vars

\* a service that reveals the secret of a pre auth key when listing, or not,
\* and whose clock agrees with the provider's, or is ahead of it
InitPreAuthKey ==
    /\ kind = "pre_auth_key"
    /\ remote \in {InitRemote,
                   [InitRemote EXCEPT !.listRevealsKey = FALSE],
                   [InitRemote EXCEPT !.clockAhead = 1]}
    /\ state = Absent
    /\ now = 0
    /\ hist = <<>>

NextPreAuthKey ==
    \/ PreAuthKeyCreate
    \/ PreAuthKeyRead
    \/ PreAuthKeyUpdate
    \/ PreAuthKeyDelete
    \/ PreAuthKeyImportState
    \/ EnvRemovePreAuthKey
    \/ Tick

SpecPreAuthKey == InitPreAuthKey /\ [][NextPreAuthKey]_vars

InitApiKey ==
    /\ kind = "api_key"
    /\ remote = InitRemote
    /\ state = Absent
    /\ now = 0
    /\ hist = <<>>

NextApiKey ==
    \/ ApiKeyCreate
    \/ ApiKeyRead
    \/ ApiKeyUpdate
    \/ ApiKeyDelete
    \/ EnvRemoveApiKey
    \/ Tick

SpecApiKey == InitApiKey /\ [][NextApiKey]_vars

\* the two kinds of key
InitKeys == InitPreAuthKey \/ InitApiKey

NextKeys ==
    \/ PreAuthKeyCreate
    \/ PreAuthKeyRead
    \/ PreAuthKeyUpdate
    \/ PreAuthKeyDelete
    \/ PreAuthKeyImportState
    \/ EnvRemovePreAuthKey
    \/ ApiKeyCreate
    \/ ApiKeyRead
    \/ ApiKeyUpdate
    \/ ApiKeyDelete
    \/ EnvRemoveApiKey
    \/ Tick

SpecKeys == InitKeys /\ [][NextKeys]_vars

\* the data source of the nodes
InitNodes ==
    /\ kind = "nodes"
    /\ remote = InitRemote
    /\ state = Absent
    /\ now = 0
    /\ hist = <<>>

NextNodes ==
    \/ NodesDataSourceRead
    \/ EnvRemoveNode

SpecNodes == InitNodes /\ [][NextNodes]_vars

\* the provider before Configure
InitProvider ==
    /\ kind = "provider"
    /\ remote = InitRemote
    /\ state = Absent
    /\ now = 0
    /\ hist = <<>>

SpecProvider == InitProvider /\ [][HeadscaleProviderConfigure]_vars

\* every kind of resource, the data source and the provider
\* two callers, each holding the record a Read of the same node left
InitCallers ==
    /\ kind \in {"node_tags_callers", "node_routes_callers"}
    /\ remote = InitRemote
    /\ \E n \in NodeIds :
        LET node == NodeMsg(NodeOf(InitRemote, n))
            data == IF kind = "node_tags_callers"
                    THEN readComputedFieldsNodeTags(
                             node, NodeTagsModel(n, n, NullSet))
                    ELSE readComputedFieldsNodeRoutes(
                             node, NodeRoutesModel(n, n, NullSet))
        IN state = [present |-> TRUE,
                    callers |-> [c \in Callers |->
                                   [pc |-> "idle", err |-> FALSE,
                                    plan |-> NullSet, node |-> NilNode,
                                    data |-> data]]]
    /\ now = 0
    /\ hist = <<>>

NextCallers ==
    \/ NodeTagsUpdateIssue
    \/ NodeTagsUpdateStore
    \/ NodeRoutesUpdateIssue
    \/ NodeRoutesUpdateStore

SpecCallers == InitCallers /\ [][NextCallers]_vars

Init ==
    InitUser \/ InitNode \/ InitKeys \/ InitNodes \/ InitProvider
    \/ InitCallers

Next ==
    \/ UserCreate
    \/ UserRead
    \/ UserUpdate
    \/ UserDelete
    \/ UserImportState
    \/ EnvRemoveUser
    \/ EnvChangeUser
    \/ NodeTagsCreate
    \/ NodeTagsRead
    \/ NodeTagsUpdate
    \/ NodeTagsDelete
    \/ NodeRoutesCreate
    \/ NodeRoutesRead
    \/ NodeRoutesUpdate
    \/ NodeRoutesDelete
    \/ NodeTagsImportState
    \/ NodeRoutesImportState
    \/ EnvRemoveNode
    \/ PreAuthKeyCreate
    \/ PreAuthKeyRead
    \/ PreAuthKeyUpdate
    \/ PreAuthKeyDelete
    \/ PreAuthKeyImportState
    \/ EnvRemovePreAuthKey
    \/ ApiKeyCreate
    \/ ApiKeyRead
    \/ ApiKeyUpdate
    \/ ApiKeyDelete
    \/ EnvRemoveApiKey
    \/ NodesDataSourceRead
    \/ HeadscaleProviderConfigure
    \/ NodeTagsUpdateIssue
    \/ NodeTagsUpdateStore
    \/ NodeRoutesUpdateIssue
    \/ NodeRoutesUpdateStore
    \/ Tick

Spec == Init /\ [][Next]_vars

----------------------------------------------------------------------------
(* Properties: vocabulary *)

KeyKinds == {"pre_auth_key", "api_key"}
NodeKinds == {"node_tags", "node_routes"}

\* the latest step is the handler op
Acted(op) == Len(hist) >= 1 /\ hist[1].op = op

\* the latest two steps are the handlers first and then second
ActedAfter(second, first) ==
    Len(hist) = 2 /\ hist[1].op = second /\ hist[2].op = first

\* every RPC of the latest step was answered without an error
Answered == \A i \in 1..Len(hist[1].rpcs) : hist[1].rpcs[i].ok

\* the value set of a node record, and of the request an Update sent
Values(rec) == IF kind = "node_tags" THEN rec.tags ELSE rec.routes
Sent(entry) == IF kind = "node_tags" THEN Received(entry.rpcs[1].req.tags)
               ELSE Received(entry.rpcs[1].req.routes)

----------------------------------------------------------------------------
(* C1: expiry at the boundary *)

\* C1, as the claim states it: a Read of a pre auth key or an api key that
\* finds the key with expiration <= clock (equality included) ends with the
\* stored record removed.
C1_ReadRemovesAtOrAfterExpiration ==
    (kind \in KeyKinds /\ Acted("Read") /\ hist[1].obs.found
        /\ hist[1].obs.expiration <= hist[1].obs.clock)
    => ~state.present

\* C1, amended: a Read that finds the key removes the stored record exactly
\* when its reading of the clock is strictly after the expiration; with
\* expiration = clock the record is kept.
C1_ReadRemovesStrictlyAfterExpiration ==
    (kind \in KeyKinds /\ Acted("Read") /\ hist[1].obs.found)
    => (~state.present <=> hist[1].obs.expiration < hist[1].obs.clock)

\* a Read found a key whose expiration had passed and removed the record
C1_Witness ==
    /\ kind \in KeyKinds /\ Acted("Read") /\ hist[1].obs.found
    /\ hist[1].obs.expiration < hist[1].obs.clock
    /\ ~state.present

----------------------------------------------------------------------------
(* C2: all or nothing *)

\* C2: every operation is all-or-nothing: a handler that reports a failure
\* has changed nothing remotely, and a handler that changed the remote tables
\* ends with a stored record (Create, Update) or with none (Delete); steps
\* during which other clients changed the tables are left aside.
C2_AllOrNothing ==
    (Len(hist) >= 1
        /\ hist[1].op \in {"Create", "Read", "Update", "Delete"}
        /\ ~hist[1].obs.interfered)
    => /\ hist[1].err => ~hist[1].remoteChanged
       /\ hist[1].remoteChanged =>
            (state.present <=> hist[1].op # "Delete")

----------------------------------------------------------------------------
(* C3: a Read that finds nothing *)

\* C3: a Read that finds its entity absent, or its key expired, removes the
\* stored record and reports no error.
C3_ReadAbsentReportsNoError ==
    (Acted("Read") /\ Answered /\ ~state.present) => ~hist[1].err

----------------------------------------------------------------------------
(* C4: the key field *)

\* C4: the key of a stored pre auth key or api key is written only by Create:
\* a Read that keeps the record leaves key as it was before the Read.
C4_ReadKeepsKey ==
    (kind \in KeyKinds /\ Len(hist) = 2 /\ hist[1].op = "Read"
        /\ state.present)
    => state.key = hist[2].post.key

----------------------------------------------------------------------------
(* C5: the last Update wins *)

\* C5: for a node's routes or tags, after Update with set A and Update with
\* set B, A and B sets of values, a Read reports exactly B; each Update sent
\* the whole set of its plan.  (A set that holds a null element is not a set
\* of values: Update cannot read it, which is the matter of C29.)
C5_ReadAfterUpdatesReportsLast ==
    [][(/\ kind \in NodeKinds
        /\ ActedAfter("Update", "Update")
        /\ ~hist[1].err /\ ~hist[2].err
        /\ ~hist[1].obs.unread /\ ~hist[2].obs.unread
        /\ hist'[1].op = "Read" /\ hist'[1].rpcs[1].ok)
       => /\ state'.present
          /\ Values(state') = Values(hist[1].plan)
          /\ Sent(hist[1]) = Values(hist[1].plan)
          /\ Sent(hist[2]) = Values(hist[2].plan)]_vars

\* Update with A and then with B, A holding an element B lacks, both
\* answered, and a Read that is answered can follow
C5_Witness ==
    /\ kind = "node_routes"
    /\ ActedAfter("Update", "Update")
    /\ ~hist[1].err /\ ~hist[2].err
    /\ Values(hist[2].plan) \ Values(hist[1].plan) # {}
    /\ Values(hist[1].plan) # {}
    /\ ENABLED (NodeRoutesRead /\ hist'[1].rpcs[1].ok)

----------------------------------------------------------------------------
(* C6: Update is idempotent *)

\* C6: Update(n, S) applied twice in succession leaves the same stored record
\* after the second call as after the first, and the same remote set; the
\* record holds S when Update could read S.
C6_UpdateTwiceIsIdempotent ==
    (kind \in NodeKinds /\ ActedAfter("Update", "Update")
        /\ ~hist[1].err /\ ~hist[2].err
        /\ Values(hist[1].plan) = Values(hist[2].plan))
    => /\ state = hist[2].post
       /\ ~hist[1].remoteChanged
       /\ ~hist[1].obs.unread => Values(state) = Values(hist[1].plan)

\* the same non-empty set of tags was applied twice
C6_Witness ==
    /\ kind = "node_tags" /\ ActedAfter("Update", "Update")
    /\ ~hist[1].err /\ ~hist[2].err
    /\ Values(hist[1].plan) = Values(hist[2].plan)
    /\ Values(hist[1].plan) # {}
    /\ hist[2].remoteChanged

----------------------------------------------------------------------------
(* C7: User round trip *)

\* C7: a User Create followed immediately by an answered Read leaves a stored
\* record with the id, name, email, displayName and createdAt the Create
\* stored, whether email and displayName were absent, empty or non-empty.
C7_UserCreateThenRead ==
    (kind = "user" /\ ActedAfter("Read", "Create")
        /\ ~hist[2].err /\ Answered)
    => /\ state.present
       /\ state.id = hist[2].post.id
       /\ state.name = hist[2].post.name
       /\ state.email = hist[2].post.email
       /\ state.displayName = hist[2].post.displayName
       /\ state.createdAt = hist[2].post.createdAt

\* Create with an empty email and a non-empty display name, then Read
C7_Witness ==
    /\ kind = "user" /\ ActedAfter("Read", "Create")
    /\ ~hist[2].err /\ Answered
    /\ hist[2].plan.email = "" /\ hist[2].plan.displayName = "x"
    /\ state.present /\ state.displayName = "x"

----------------------------------------------------------------------------
(* C8: node tags and node routes round trip *)

\* C8: for the tags and the routes of an existing node, Create followed
\* immediately by an answered Read leaves a stored record with the id, nodeId
\* and value set the Create stored, the empty set included.
C8_NodeCreateThenRead ==
    (kind \in NodeKinds /\ ActedAfter("Read", "Create")
        /\ ~hist[2].err /\ Answered)
    => /\ state.present
       /\ state.id = hist[2].post.id
       /\ state.nodeId = hist[2].post.nodeId
       /\ Values(state) = Values(hist[2].post)

\* Create with an empty set of tags, then Read: the stored set is empty
C8_Witness ==
    /\ kind = "node_tags" /\ ActedAfter("Read", "Create")
    /\ ~hist[2].err /\ Answered
    /\ Values(hist[2].plan) = {}
    /\ state.present /\ state.tags = {}

----------------------------------------------------------------------------
(* C9: keys cannot be updated *)

\* C9: Update of a pre auth key or an api key always reports an error, issues
\* no RPC and leaves the remote tables and the stored record unchanged.
C9_KeyUpdateIsRefused ==
    (kind \in KeyKinds /\ Acted("Update"))
    => /\ hist[1].err
       /\ hist[1].rpcs = <<>>
       /\ ~hist[1].remoteChanged
       /\ ~hist[1].stateChanged

\* Update acted on a stored pre auth key with a plan that differs from it
C9_Witness ==
    /\ kind = "pre_auth_key" /\ Acted("Update")
    /\ state.present
    /\ hist[1].plan.userId # state.userId

----------------------------------------------------------------------------
(* C10: Delete of a pre auth key expires it *)

\* the Delete step: one ExpirePreAuthKey for the stored userId and key; when
\* answered, the row stays in the remote table with its expiration at the
\* service's clock, and the stored record is gone
C10_DeleteExpires ==
    (kind = "pre_auth_key" /\ state.present /\ hist' # hist
        /\ hist'[1].op = "Delete")
    => /\ Len(hist'[1].rpcs) = 1
       /\ hist'[1].rpcs[1].name = "ExpirePreAuthKey"
       /\ hist'[1].rpcs[1].req.user = ValueInt64(state.userId)
       /\ hist'[1].rpcs[1].req.key = ValueString(state.key)
       /\ ~hist'[1].err =>
            /\ ~state'.present
            /\ Cardinality(remote'.preAuthKeys) = Cardinality(remote.preAuthKeys)
            /\ \E k \in remote'.preAuthKeys :
                 /\ k.id = state.id /\ k.key = state.key
                 /\ k.expiration = ServiceClock(remote, now)

\* the record of the key that the latest Delete expired has been imported
\* again, and a Read of it is answered
C10_ReadOfDeletedKey ==
    /\ kind = "pre_auth_key"
    /\ ActedAfter("ImportState", "Delete")
    /\ ~hist[1].err /\ ~hist[2].err
    /\ \E k \in remote.preAuthKeys :
         /\ k.id = state.id /\ k.user = state.userId
         /\ k.key = hist[2].rpcs[1].req.key
    /\ hist'[1].op = "Read" /\ hist'[1].rpcs[1].ok

\* C10, as the claim states it: Delete issues exactly one ExpirePreAuthKey
\* for the stored userId and key, the service keeps the row, marked expired,
\* and a later Read of the same id ends with the record absent.
C10_DeleteExpiresAndLaterReadRemoves ==
    [][/\ C10_DeleteExpires
       /\ C10_ReadOfDeletedKey => ~state'.present]_vars

\* C10, amended: Delete issues exactly one ExpirePreAuthKey for the stored
\* userId and key, the service keeps the row, marked expired, and a later
\* Read of the same id ends with the record absent when its reading of the
\* clock is strictly after the expiration the service recorded; a Read whose
\* clock has not passed that instant keeps the record.
C10_DeleteExpiresAndReadPastExpiryRemoves ==
    [][/\ C10_DeleteExpires
       /\ C10_ReadOfDeletedKey =>
            /\ hist'[1].obs.found
            /\ ~state'.present <=>
                  hist'[1].obs.expiration < hist'[1].obs.clock]_vars

\* Delete was answered, the service still lists the row, the key was imported
\* again and a Read that removes the record can follow
C10_Witness ==
    /\ kind = "pre_auth_key"
    /\ ActedAfter("ImportState", "Delete")
    /\ ~hist[1].err /\ ~hist[2].err
    /\ \E k \in remote.preAuthKeys :
         /\ k.id = state.id /\ k.user = state.userId
         /\ k.key = hist[2].rpcs[1].req.key
         /\ k.expiration <= ServiceClock(remote, now)
    /\ ENABLED (PreAuthKeyRead /\ hist'[1].rpcs[1].ok /\ ~state'.present)

----------------------------------------------------------------------------
(* C11: Delete of node tags / node routes clears the set *)

\* the set a node row holds for the kind of the resource
NodeValues(n) == IF kind = "node_tags" THEN n.forcedTags ELSE n.approvedRoutes

\* C11: Delete of a node's tags or routes sends one set-values RPC with an
\* empty set for the stored nodeId; when it is answered the node is still
\* there, its tags (routes) are empty, and nothing else of the remote tables
\* differs.
C11_DeleteClearsValues ==
    [][(kind \in NodeKinds /\ state.present /\ hist' # hist
            /\ hist'[1].op = "Delete")
       => /\ Len(hist'[1].rpcs) = 1
          /\ hist'[1].rpcs[1].name =
                IF kind = "node_tags" THEN "SetTags" ELSE "SetApprovedRoutes"
          /\ hist'[1].rpcs[1].req.nodeId = ValueInt64(state.nodeId)
          /\ Sent(hist'[1]) = {}
          /\ ~hist'[1].err =>
                /\ ~state'.present
                /\ HasNode(remote', state.nodeId)
                /\ NodeValues(NodeOf(remote', state.nodeId)) = {}
                /\ \A n \in remote.nodes :
                     n.id # state.nodeId => n \in remote'.nodes
                /\ {n.id : n \in remote'.nodes} = {n.id : n \in remote.nodes}
                /\ \E old \in remote.nodes, new \in remote'.nodes :
                     /\ old.id = state.nodeId /\ new.id = state.nodeId
                     /\ new = IF kind = "node_tags"
                              THEN [old EXCEPT !.forcedTags = {}]
                              ELSE [old EXCEPT !.approvedRoutes = {}]]_vars

\* an answered Delete cleared the tags of a node that had some, while
\* another node keeps its own
C11_Witness ==
    /\ kind = "node_tags" /\ ActedAfter("Delete", "Create")
    /\ ~hist[1].err /\ ~hist[2].err
    /\ Values(hist[2].post) # {}
    /\ hist[1].remoteChanged
    /\ NodeValues(NodeOf(remote, hist[2].post.nodeId)) = {}
    /\ \E n \in remote.nodes :
         n.id # hist[2].post.nodeId /\ NodeValues(n) # {}

----------------------------------------------------------------------------
(* C12: User Read and the number of users listed *)

\* the users an answered ListUsers returns for the stored record
UsersListed ==
    (CHOOSE res \in RemoteListUsers(remote, UserListUsersRequest(state)) :
        ~res.err).users

\* C12: a User Read whose list response holds no user (a nil list) or more
\* than one removes the stored record and takes nothing from the list; it
\* writes a refreshed record only when exactly one user is returned, and then
\* from that user.
C12_UserReadNeedsExactlyOne ==
    [][(kind = "user" /\ state.present /\ hist' # hist
            /\ hist'[1].op = "Read" /\ hist'[1].rpcs[1].ok)
       => IF Len(UsersListed) = 1
          THEN state' = readComputedFieldsUser(UsersListed[1], state)
          ELSE state' = Absent]_vars

\* a Read was answered with two users and removed the record
C12_Witness ==
    /\ kind = "user" /\ ActedAfter("Read", "Create")
    /\ ~hist[2].err /\ Answered
    /\ remote.listIgnoresId
    /\ Cardinality(remote.users) = 2
    /\ hist[1].stateChanged /\ ~state.present

----------------------------------------------------------------------------
(* C13: the expiration Create asks for *)

Hour == 3600 * TicksPerSecond

\* the ttl of the plan of the Create that the step takes
CreatedTtl == hist'[1].plan.ttl

\* C13: a Create that reaches its RPC sends as expiration its reading of the
\* clock plus the ttl: one hour for a pre auth key without ttl, 2160 hours
\* for an api key without ttl, and the parsed duration ("500ms" is half a
\* second) when a ttl is given.
C13_CreateSendsClockPlusTtl ==
    [][(kind \in KeyKinds /\ hist' # hist /\ hist'[1].op = "Create"
            /\ hist'[1].rpcs # <<>>)
       => LET sent == hist'[1].rpcs[1].req.expiration
          IN /\ (kind = "pre_auth_key" /\ CreatedTtl = NullChars)
                   => sent = now + 1 * Hour
             /\ (kind = "api_key" /\ CreatedTtl = ApiKeyPlannedTtl(NullChars))
                   => sent = now + 2160 * Hour
             /\ CreatedTtl = <<"5", "0", "0", "m", "s">>
                   => sent = now + TicksPerSecond \div 2]_vars

\* a pre auth key without ttl was created when the clock had advanced
C13_Witness ==
    /\ kind = "pre_auth_key" /\ Acted("Create") /\ ~hist[1].err
    /\ hist[1].plan.ttl = NullChars
    /\ hist[1].obs.first >= 1
    /\ hist[1].rpcs[1].req.expiration = hist[1].obs.first + 1 * Hour

----------------------------------------------------------------------------
(* C14: a malformed ttl *)

\* C14: Create of a pre auth key or an api key with a malformed ttl reports
\* an error, issues no RPC and writes no stored record.
C14_MalformedTtlIsLocalFailure ==
    (kind \in KeyKinds /\ Acted("Create") /\ hist[1].plan.ttl \in MalformedTtls)
    => /\ hist[1].err
       /\ hist[1].rpcs = <<>>
       /\ ~hist[1].remoteChanged
       /\ ~hist[1].stateChanged /\ ~state.present

\* Create was asked for a ttl of two groups, which time.ParseDuration reads
C14_Witness ==
    /\ kind = "api_key" /\ Acted("Create")
    /\ hist[1].plan.ttl = <<"1", "h", "1", "m">>
    /\ ~ParseDuration(hist[1].plan.ttl).err
    /\ hist[1].err

----------------------------------------------------------------------------
(* C15: validation of tags and routes *)

\* the form tag:<value>: the value starts with "tag:" and goes on
HasTagForm(v) ==
    Len(Chars[v]) >= 5 /\ SubSeq(Chars[v], 1, 4) = <<"t", "a", "g", ":">>

\* the form net/mask: a "/" with text on either side
HasRouteForm(v) ==
    \E i \in 2..(Len(Chars[v]) - 1) : Chars[v][i] = "/"

\* C15, as the claim states it: no SetTags, SetApprovedRoutes or
\* CreatePreAuthKey RPC carries a tag that does not have the form tag:<value>
\* or a route that does not have the form net/mask.
C15_NoRpcCarriesMalformedValue ==
    Len(hist) >= 1 =>
        \A i \in 1..Len(hist[1].rpcs) :
            LET rpc == hist[1].rpcs[i]
            IN /\ rpc.name = "SetTags"
                    => \A v \in Received(rpc.req.tags) : HasTagForm(v)
               /\ rpc.name = "CreatePreAuthKey"
                    => \A v \in Received(rpc.req.aclTags) : HasTagForm(v)
               /\ rpc.name = "SetApprovedRoutes"
                    => \A v \in Received(rpc.req.routes) : HasRouteForm(v)

\* the part of C15 that the code keeps: a plan that names the tag "admin" or
\* the route "10.0.0.0" ends with an error, without an RPC and without a
\* change of the stored record
C15_ExamplesAreRejected ==
    (/\ Len(hist) >= 1
     /\ hist[1].op \in {"Create", "Update"}
     /\ hist[1].plan.present
     /\ \/ kind = "node_tags" /\ "admin" \in hist[1].plan.tags
        \/ kind = "node_routes" /\ "10.0.0.0" \in hist[1].plan.routes
        \/ kind = "pre_auth_key" /\ "admin" \in hist[1].plan.aclTags)
    => hist[1].err /\ hist[1].rpcs = <<>> /\ ~hist[1].stateChanged

\* a plan with the tag "admin" was rejected
C15_ExamplesWitness ==
    /\ kind = "node_tags" /\ Acted("Update")
    /\ hist[1].plan.tags = {"admin"} /\ hist[1].err

----------------------------------------------------------------------------
(* C16: import *)

\* the text is a run of digits
IsInteger(s) == s # <<>> /\ \A i \in 1..Len(s) : IsDigit(s[i])

\* the number a run of digits writes
IntegerOf(s) == leadingInt(s, 0).x

\* the identifier is two non-empty integers with a comma between them
IsUserAndKeyId(id) ==
    LET parts == Split(id, ",")
    IN Len(parts) = 2 /\ IsInteger(parts[1]) /\ IsInteger(parts[2])

\* what an import of a pre auth key leaves: the two identifying fields when
\* the identifier is well formed, an error and the untouched state otherwise
PreAuthKeyImported ==
    LET id == hist[1].plan.id
    IN IF IsUserAndKeyId(id)
       THEN /\ ~hist[1].err
            /\ state = [PreAuthKeyModel(IntegerOf(Split(id, ",")[1]), NullBool,
                                        NullBool, NullChars, NullSet)
                          EXCEPT !.id = IntegerOf(Split(id, ",")[2])]
       ELSE hist[1].err /\ ~hist[1].stateChanged /\ ~state.present

\* what an import of a user leaves: the id and nothing else
UserImported ==
    LET id == hist[1].plan.id
    IN IsInteger(id)
       => /\ ~hist[1].err
          /\ state = UserModel(IntegerOf(id), NullStr, NullStr, NullStr, NullStr)

\* C16, as the claim states it: an import of a user stores the id the
\* identifier writes and nothing else; an import of a pre auth key stores
\* userId and id of a well-formed identifier and nothing else, and rejects
\* every other identifier with an error, the state untouched.
C16_ImportSetsIdentifyingFields ==
    Acted("ImportState")
    => /\ kind = "user" => UserImported
       /\ kind = "pre_auth_key" => PreAuthKeyImported

\* the part of C16 that the code keeps: the import of a pre auth key
C16_PreAuthKeyImport ==
    (kind = "pre_auth_key" /\ Acted("ImportState")) => PreAuthKeyImported

\* both outcomes of a pre auth key import were seen, one after the other
C16_PreAuthKeyImportWitness ==
    /\ kind = "pre_auth_key" /\ ActedAfter("ImportState", "ImportState")
    /\ hist[2].plan.id = <<"1", ",", "2", ",", "1">> /\ hist[2].err
    /\ hist[1].plan.id = <<"1", ",", "2">> /\ state.present

----------------------------------------------------------------------------
(* C17: the id of an api key *)

\* p is the part of s before the first "." of s (all of s when s has none)
IsBeforeFirstDot(p, s) ==
    /\ Len(p) <= Len(s)
    /\ SubSeq(s, 1, Len(p)) = p
    /\ \A i \in 1..Len(p) : p[i] # "."
    /\ Len(p) = Len(s) \/ s[Len(p) + 1] = "."

\* C17: when Create of an api key stores a record, its key is the whole
\* secret the service issued and its id is the part of that secret before the
\* first "."; Delete names the key by that id as the prefix; an answered Read
\* keeps a record only if the list holds a key whose prefix is that id, and
\* removes the record if the list holds none.
C17_IdIsFirstSegmentOfSecret ==
    [][(kind = "api_key" /\ hist' # hist) =>
        /\ (hist'[1].op = "Create" /\ state'.present)
            => /\ \E k \in remote'.apiKeys \ remote.apiKeys :
                       state'.key = k.secret
               /\ IsBeforeFirstDot(state'.id, state'.key)
        /\ hist'[1].op = "Delete"
            => /\ hist'[1].rpcs[1].name = "DeleteApiKey"
               /\ hist'[1].rpcs[1].req.prefix = state.id
               /\ IsBeforeFirstDot(state.id, state.key)
        /\ (hist'[1].op = "Read" /\ ~hist'[1].err)
            => /\ state'.present
                    => /\ \E k \in remote.apiKeys : k.prefix = state.id
                       /\ state'.id = state.id /\ state'.key = state.key
               /\ (\A k \in remote.apiKeys : k.prefix # state.id)
                    => ~state'.present]_vars

\* a record of a secret with two "." in it was read and is about to be deleted
C17_Witness ==
    /\ kind = "api_key" /\ ActedAfter("Read", "Create")
    /\ state.present
    /\ state.key = <<"k", "2", ".", "s", ".", "t">>
    /\ state.id = <<"k", "2">>
    /\ ENABLED ApiKeyDelete

\* a record of a secret without a "." was stored and then deleted
C17_WitnessNoDot ==
    /\ kind = "api_key" /\ ActedAfter("Delete", "Create")
    /\ ~hist[1].err /\ ~hist[2].err
    /\ hist[1].rpcs[1].req.prefix = <<"k", "2">>
    /\ \A i \in 1..Len(hist[1].rpcs[1].req.prefix) :
            hist[1].rpcs[1].req.prefix[i] # "."

----------------------------------------------------------------------------
(* C18: the list of nodes *)

\* the latest step read the list while the service held no node, and was
\* answered with an error although no RPC failed: the list was nil
ReadGotNil ==
    /\ Acted("Read") /\ hist[1].err /\ Answered /\ remote.nodes = {}

\* C18: a Read of the nodes that ends with an error writes nothing; a Read
\* that ends without one stores one (id, name, ownerUserId) entry per node of
\* the service, in ascending order of the ids as the service lists them, which
\* is the empty sequence for an empty list; a nil list is an error.
C18_NodesRead ==
    (kind = "nodes" /\ Acted("Read"))
    => /\ hist[1].err => ~hist[1].stateChanged
       /\ ~hist[1].err
            => /\ state.present
               /\ Len(state.nodes) = Cardinality(remote.nodes)
               /\ \A i \in 1..Len(state.nodes) :
                    /\ \E n \in remote.nodes :
                            /\ state.nodes[i].id = n.id
                            /\ state.nodes[i].name = n.name
                            /\ state.nodes[i].userId = n.user
                    /\ \A j \in 1..Len(state.nodes) :
                            i < j => state.nodes[i].id < state.nodes[j].id
       /\ (~Answered) => hist[1].err

\* an empty list was stored, and the next Read was answered with nil
C18_Witness ==
    /\ kind = "nodes" /\ ActedAfter("Read", "Read")
    /\ ~hist[2].err /\ hist[2].post = NodesDataSourceModel(<<>>)
    /\ ReadGotNil
    /\ state = NodesDataSourceModel(<<>>)

\* all nodes of the service were listed
C18_WitnessAll ==
    /\ kind = "nodes" /\ Acted("Read") /\ ~hist[1].err
    /\ Len(state.nodes) = MaxNode

----------------------------------------------------------------------------
(* C19: where the connection settings come from *)

\* the configuration and the environment Configure ran with
ConfiguredWith == hist[1].plan

\* Configure handed out a client
Configured == kind = "provider" /\ Acted("Configure") /\ state.present

\* the client uses the inline endpoint, token, insecure flag, CA bundle and
\* client certificate whenever the configuration sets them
InlineWinsButForKey ==
    LET data == ConfiguredWith.data
    IN /\ data.endpoint # NullStr => state.target = data.endpoint
       /\ data.apiKey # NullStr => state.apiKey = data.apiKey
       /\ data.insecure # NullBool => state.insecure = (data.insecure = "true")
       /\ data.caPem # NullStr => state.rootCAs = data.caPem
       /\ data.clientCertPem # NullStr
            => state.clientCertPem = data.clientCertPem

\* a setting that is not set inline comes from the environment: the variable
\* for the endpoint and the token, the file the variable names for the rest
EnvOnlyWithoutInline ==
    LET env == ConfiguredWith.env
        data == ConfiguredWith.data
    IN /\ state.target = "env:443" => data.endpoint = NullStr
       /\ state.apiKey = "env-token" => data.apiKey = NullStr
       /\ state.rootCAs = "CA-FILE" => data.caPem = NullStr
       /\ state.clientCertPem = "CERT-FILE" => data.clientCertPem = NullStr
       /\ state.clientKeyPem = "KEY-FILE" => data.clientKeyPem = NullStr

\* C19, as the claim states it: for each of the six connection settings the
\* client is built from the inline value whenever the setting is set inline,
\* and from the environment only when that setting is not set inline.
C19_InlineValueWins ==
    Configured
    => /\ InlineWinsButForKey
       /\ ConfiguredWith.data.clientKeyPem # NullStr
            => state.clientKeyPem = ConfiguredWith.data.clientKeyPem
       /\ EnvOnlyWithoutInline

\* the part of C19 that the code keeps: the five settings other than the
\* client key
C19_InlineValueWinsButForKey == Configured => InlineWinsButForKey

\* inline values and the environment competed for every setting but the key
C19_WitnessButForKey ==
    /\ Configured
    /\ ConfiguredWith.data.endpoint = "inline:443"
    /\ ConfiguredWith.env.HEADSCALE_ENDPOINT = "env:443"
    /\ ConfiguredWith.data.apiKey = "inline-token"
    /\ ConfiguredWith.env.HEADSCALE_API_KEY = "env-token"
    /\ ConfiguredWith.data.insecure = "false"
    /\ ConfiguredWith.env.HEADSCALE_TLS_INSECURE = "true"
    /\ ConfiguredWith.data.caPem = "CA-INLINE"
    /\ ConfiguredWith.env.HEADSCALE_TLS_CA_PATH = "/ca.pem"
    /\ ConfiguredWith.data.clientCertPem = "CERT-INLINE"
    /\ ConfiguredWith.env.HEADSCALE_TLS_CLIENT_CERT_PATH = "/cert.pem"

----------------------------------------------------------------------------
(* C20: failures of Configure *)

\* C20, as the claim states it: a Configure that reports an error hands out no
\* client.
C20_FailureHandsOutNoClient ==
    (kind = "provider" /\ Acted("Configure") /\ hist[1].err) => ~state.present

\* the flag of the environment was needed and could not be parsed
InsecureFlagUnparsable ==
    /\ ConfiguredWith.data.insecure = NullBool
    /\ ConfiguredWith.env.HEADSCALE_TLS_INSECURE \notin {"", "true"}

\* the part of C20 that the code keeps: every failure but the one of the
\* insecure flag hands out no client
C20_OtherFailuresHandOutNoClient ==
    (/\ kind = "provider" /\ Acted("Configure") /\ hist[1].err
     /\ ~InsecureFlagUnparsable)
    => ~state.present

\* Configure failed on a file that could not be read
C20_WitnessOther ==
    /\ kind = "provider" /\ Acted("Configure") /\ hist[1].err
    /\ ~InsecureFlagUnparsable
    /\ ConfiguredWith.data.caPem = NullStr
    /\ ConfiguredWith.env.HEADSCALE_TLS_CA_PATH = "/missing"

----------------------------------------------------------------------------
(* C21: no retries *)

\* the operations of the reconcilers
HandlerOps == {"Create", "Read", "Update", "Delete"}

\* C21: an operation of a reconciler issues no RPC twice and issues none after
\* one that failed; when an RPC failed the operation reports an error and the
\* stored record is neither written nor removed.
C21_NoRetryAndFailureKeepsRecord ==
    (Len(hist) >= 1 /\ hist[1].op \in HandlerOps)
    => LET rpcs == hist[1].rpcs
       IN /\ \A i, j \in 1..Len(rpcs) : rpcs[i].name = rpcs[j].name => i = j
          /\ \A i \in 1..Len(rpcs) : ~rpcs[i].ok => i = Len(rpcs)
          /\ (\E i \in 1..Len(rpcs) : ~rpcs[i].ok)
                => hist[1].err /\ ~hist[1].stateChanged

\* Create of an api key got its key and then failed to list the keys
C21_Witness ==
    /\ kind = "api_key" /\ Acted("Create")
    /\ Len(hist[1].rpcs) = 2 /\ hist[1].rpcs[1].ok /\ ~hist[1].rpcs[2].ok
    /\ hist[1].err /\ ~state.present

\* a Read of a stored pre auth key failed and the record stayed
C21_WitnessRead ==
    /\ kind = "pre_auth_key" /\ Acted("Read")
    /\ ~hist[1].rpcs[1].ok /\ hist[1].err /\ state.present

----------------------------------------------------------------------------
(* C22: what an Update of a user sends and stores *)

\* what a record holds for a text of the service: null for the empty text
Stored(text) == IF text = "" THEN NullStr ELSE text

\* C22: Update of a user issues RenameUser and nothing else, with the stored
\* id and the planned name and no other field; when it is answered, the email
\* and the display name of the record are the ones the service holds for that
\* user.
C22_UpdateSendsIdAndNameOnly ==
    [][(kind = "user" /\ hist' # hist /\ hist'[1].op = "Update") =>
        /\ Len(hist'[1].rpcs) = 1
        /\ hist'[1].rpcs[1].name = "RenameUser"
        /\ hist'[1].rpcs[1].req =
                [oldId |-> state.id, newName |-> hist'[1].plan.name]
        /\ ~hist'[1].err
            => \E u \in remote'.users :
                /\ u.id = state.id
                /\ state'.name = hist'[1].plan.name
                /\ state'.email = Stored(u.email)
                /\ state'.displayName = Stored(u.displayName)]_vars

\* an Update was answered for a user whose email the service holds is not the
\* planned one
C22_Witness ==
    /\ kind = "user" /\ Acted("Update") /\ ~hist[1].err
    /\ hist[1].plan.email = "x" /\ state.email = "y"
    /\ hist[1].plan.displayName = NullStr /\ state.displayName = "z"

----------------------------------------------------------------------------
(* C23: Read of the tags or routes of a node that is gone *)

\* the latest step is a Read of a node record for a node the service does not
\* hold
ReadOfMissingNode ==
    /\ kind \in NodeKinds /\ Acted("Read")
    /\ ~HasNode(remote, hist[1].rpcs[1].req.nodeId)

\* C23, as the claim states it: a Read for a node that the service no longer
\* holds removes the stored record, whether GetNode answers without a node or
\* with an error.
C23_ReadOfMissingNodeRemoves == ReadOfMissingNode => ~state.present

\* the part of C23 that the code keeps: the record is removed when GetNode
\* answers without a node
C23_ReadAnsweredWithoutNodeRemoves ==
    (ReadOfMissingNode /\ Answered) => ~state.present

\* GetNode answered without a node
C23_WitnessAnswered == ReadOfMissingNode /\ Answered /\ ~state.present

----------------------------------------------------------------------------
(* C24: expired is computed *)

\* the latest step is a Create or a Read of a key that left a record
WroteKeyRecord ==
    /\ kind \in KeyKinds
    /\ Acted("Create") \/ Acted("Read")
    /\ ~hist[1].err /\ state.present

\* C24: the expired of a record that Create or Read of a pre auth key or an
\* api key leaves says whether a reading of the clock during that operation
\* was after the expiration of the key the service returned.
C24_ExpiredIsComputed ==
    WroteKeyRecord
    => \E clock \in hist[1].obs.first..hist[1].obs.clock :
            state.expired = BoolValue(clock > hist[1].obs.expiration)

\* Create of an api key whose plan sets expired left a record that says the
\* key has not expired
C24_Witness ==
    /\ WroteKeyRecord /\ kind = "api_key" /\ Acted("Create")
    /\ hist[1].plan.expired = "true" /\ state.expired = "false"

\* Create left a record of a key that had expired when the fields were read
C24_WitnessExpired ==
    /\ WroteKeyRecord /\ Acted("Create")
    /\ hist[1].obs.clock > hist[1].obs.expiration /\ state.expired = "true"

\* Read of an imported pre auth key, whose record held no expired yet
C24_WitnessImported ==
    /\ WroteKeyRecord /\ kind = "pre_auth_key"
    /\ ActedAfter("Read", "ImportState")
    /\ hist[2].post.expired = NullBool /\ state.expired = "false"

----------------------------------------------------------------------------
(* C25 *)

\* C25: every stored NodeTagSet or NodeRouteSet record has id equal to nodeId:
\* Create stores the planned nodeId in both, an import of a numeric identifier
\* stores that number in both, and a Read or an Update that keeps the record
\* keeps both.
C25_IdIsNodeId ==
    [][(kind \in NodeKinds /\ state'.present)
        => /\ state'.id = state'.nodeId
           /\ state.present => state'.nodeId = state.nodeId
           /\ (hist'[1].op = "Create" /\ ~state.present)
                => state'.nodeId = hist'[1].plan.nodeId
           /\ (hist'[1].op = "ImportState" /\ ~state.present
                  /\ IsInteger(hist'[1].plan.id))
                => state'.nodeId = IntegerOf(hist'[1].plan.id)]_vars

\* a record imported for an existing node was refreshed by Read
C25_Witness ==
    /\ kind \in NodeKinds
    /\ ActedAfter("Read", "ImportState")
    /\ state.present /\ state.id = MaxNode /\ state.nodeId = MaxNode

\* a record imported from a signed identifier was changed by Update
C25_WitnessUpdate ==
    /\ kind \in NodeKinds
    /\ ActedAfter("Update", "ImportState")
    /\ hist[2].plan.id = <<"+", "2">>
    /\ ~hist[1].err /\ state.present /\ state.id = 2

----------------------------------------------------------------------------
(* C26 *)

\* the latest step is a Delete of a pre auth key record that Create wrote
\* (only Create stores a ttl) and that Create or a Read left in place
DeleteOfCreatedKey ==
    /\ kind = "pre_auth_key"
    /\ Len(hist) = 2 /\ hist[1].op = "Delete"
    /\ hist[2].op \in {"Create", "Read"}
    /\ hist[2].post.present /\ hist[2].post.ttl # NullChars

\* the request of the latest step names the user of the record and the secret
\* the service handed out for the key of the record
SentCreatedSecret ==
    hist[1].rpcs[1].req = [user |-> hist[2].post.userId,
                           key |-> PakSecret(hist[2].post.id)]

\* C26: the Delete of a pre auth key that Create wrote and Reads kept sends
\* ExpirePreAuthKey with the record's userId and the secret Create returned,
\* also when the list response of the service carries no secret.
C26_DeleteSendsCreatedSecret == DeleteOfCreatedKey => SentCreatedSecret

\* C26, against a service whose list response carries the secret: the Delete
\* sends the record's userId and the secret Create returned.
C26_DeleteSendsSecretTheListCarries ==
    (DeleteOfCreatedKey /\ remote.listRevealsKey) => SentCreatedSecret

\* a Delete that followed a Read, against a service that lists the secret
C26_WitnessListed ==
    /\ DeleteOfCreatedKey /\ remote.listRevealsKey
    /\ hist[2].op = "Read" /\ ~hist[1].err

----------------------------------------------------------------------------
(* C27 *)

\* the latest step is an ApiKey Create whose CreateApiKey and ListApiKeys were
\* both answered
CreateListed ==
    /\ kind = "api_key" /\ Acted("Create")
    /\ Len(hist[1].rpcs) = 2 /\ hist[1].rpcs[2].ok

\* the rows of the key that Create created, as far as the service still holds
\* it (the service numbers its keys in the order of their creation)
CreatedRows == {k \in remote.apiKeys : k.id = remote.nextId - 1}

\* C27: an ApiKey Create whose two RPCs were answered stores a record only
\* when the key it created is in the list the service returned, under the
\* prefix it stores as id; when the key is not in the list Create reports an
\* error and leaves no record.
C27_CreateStoresOnlyListedKey ==
    CreateListed
    => /\ state.present => \E k \in CreatedRows : k.prefix = state.id
       /\ CreatedRows = {} => (hist[1].err /\ ~state.present)
       /\ state.present <=> ~hist[1].err

\* another client removed the key between the two RPCs of Create
C27_Witness ==
    /\ CreateListed /\ hist[1].obs.interfered
    /\ CreatedRows = {} /\ hist[1].err /\ ~state.present

\* the key was listed and the record stored
C27_WitnessStored ==
    /\ CreateListed /\ CreatedRows # {} /\ state.present

----------------------------------------------------------------------------
(* C28 *)

CallerKinds == {"node_tags_callers", "node_routes_callers"}

\* the set the service holds for the node of the two callers
RemoteSet ==
    LET node == NodeOf(remote, state.callers[1].data.nodeId)
    IN IF kind = "node_tags_callers" THEN node.forcedTags
       ELSE node.approvedRoutes

\* the set of the stored record of caller c, and the set of the answer it got
StoredSet(c) ==
    IF kind = "node_tags_callers" THEN state.callers[c].data.tags
    ELSE state.callers[c].data.routes
AnsweredSet(c) ==
    IF kind = "node_tags_callers"
    THEN Received(state.callers[c].node.forcedTags)
    ELSE Received(state.callers[c].node.approvedRoutes)

\* both Updates ran to their end and their RPCs were answered
BothUpdated ==
    /\ kind \in CallerKinds
    /\ \A c \in Callers : state.callers[c].pc = "done" /\ ~state.callers[c].err

\* C28: after two interleaved Updates of the same node with the desired sets
\* A and B, both answered, the set the service holds is exactly A or exactly
\* B, and the stored record of each caller holds the set its own RPC
\* returned, which is the set it asked for.
C28_InterleavedUpdatesGiveAOrB ==
    BothUpdated
    => /\ RemoteSet \in {state.callers[c].plan : c \in Callers}
       /\ \A c \in Callers :
            /\ StoredSet(c) = AnsweredSet(c)
            /\ StoredSet(c) = state.callers[c].plan

\* the two callers asked for sets neither of which holds the other; the
\* record of one of them differs from what the service holds
C28_Witness ==
    /\ BothUpdated
    /\ state.callers[1].plan \ state.callers[2].plan # {}
    /\ state.callers[2].plan \ state.callers[1].plan # {}
    /\ \E c \in Callers : StoredSet(c) # RemoteSet

----------------------------------------------------------------------------
(* C29 *)

\* C29: an operation whose reading of the prior state, of the plan or of an
\* attribute of the plan gave an error ends with no RPC issued.
C29_NoRpcAfterUnreadInput ==
    (Len(hist) >= 1 /\ hist[1].obs.unread) => hist[1].rpcs = <<>>

====
